---- MODULE Spec2Model ----
(***************************************************************************)
(* az-burrow: the tunnel supervisor (internal/azure/tunnel.go), the        *)
(* certificate lifecycle manager (internal/azure/cert.go) and the tunnel   *)
(* list of the presentation layer (package tui).                           *)
(*                                                                         *)
(* Conventions.                                                            *)
(*  - A *TunnelProcess is a handle number h in Handles; handle numbers are *)
(*    handed out in allocation order by nextH.                             *)
(*  - A text line is a sequence of words, so that strings.Contains and     *)
(*    strings.ToLower are computed and not assumed.                        *)
(*  - A Go channel is a sequence plus a closed flag; a send on a full      *)
(*    channel is a disabled action (the goroutine is blocked), a send on a *)
(*    closed channel panics, which ends the whole program.                 *)
(*  - Computation takes no time: the clock of the certificate manager only *)
(*    advances while every goroutine of it is waiting (for the ticker or   *)
(*    for the external command).                                           *)
(***************************************************************************)
EXTENDS Integers, Sequences, FiniteSets, TLC

\* ------------------------------------------------------------------ bounds
NumIds == 1          \* tunnel indexes 1..NumIds
NumCallers == 2      \* goroutines calling the TunnelManager API
MaxHandles == 2      \* TunnelProcess objects ever created
MaxLines == 1        \* output lines read from the subprocesses in one run
NumCerts == 2        \* identities (VM names) 1..NumCerts
MaxRecs == 2         \* CertInfo objects ever created
MaxTicks == 2        \* the run of the certificate manager lasts MaxTicks check intervals
MaxSkew == 3         \* seconds around a classification threshold that are tried
ScriptLen == 2       \* output lines read from a subprocess whose lines are classified
MaxTunnels == 2      \* tunnels the user creates in the list of the presentation layer

\* ------------------------------------------------------- program constants
LogCap == 100        \* "Keep only last 100 lines"
QueueCap == 10       \* make(chan string, 10), make(chan error, 10)
CertLifetime == 3600     \* 1 * time.Hour, in seconds
RenewalWindow == 300     \* 5 * time.Minute
RenewalRetryDelay == 30  \* 30 * time.Second
CheckInterval == 60      \* 1 * time.Minute
CertQueueCap == 10       \* make(chan CertStatus, 10)

TunnelIds == 1..NumIds
Callers == 1..NumCallers
Handles == 1..MaxHandles
NoHandle == 0

\* ------------------------------------------------------------------- lines
ReadyLine == <<"Tunnel", "is", "ready", ",", "connect", "on", "port", "2022">>
OpeningLine == <<"Opening", "tunnel", "...">>
ErrorLine == <<"ERROR", ":", "connection", "failed">>
EmptyLine == <<>>
PortLine == <<"please", "connect", "on", "port", "2022">>
BothLine == <<"Opening", "tunnel", ":", "Tunnel", "is", "ready">>
FailedPortLine == <<"Failed", "to", "connect", "on", "port", "22">>
MixedErrorLine == <<"Error", ":", "timeout">>
UpperFailedLine == <<"connection", "FAILED">>
PlainLine == <<"warning", ":", "retrying">>

\* The lines the subprocesses of the supervisor model write.
Lines == {ReadyLine, ErrorLine}

\* strings.Contains on word sequences.
Contains(line, phrase) ==
    \E i \in 1..(Len(line) - Len(phrase) + 1) :
        SubSeq(line, i, i + Len(phrase) - 1) = phrase

LowerWord(w) ==
    CASE w = "ERROR" -> "error"
      [] w = "Error" -> "error"
      [] w = "FAILED" -> "failed"
      [] w = "Failed" -> "failed"
      [] w = "Tunnel" -> "tunnel"
      [] w = "Opening" -> "opening"
      [] OTHER -> w

\* strings.ToLower
ToLower(line) == [i \in DOMAIN line |-> LowerWord(line[i])]

\* Mutant of ClassifyStatus: 'Opening tunnel' is tested first.
ClassifyStatusOpeningFirst(line) ==
    IF Contains(line, <<"Opening", "tunnel">>)
    THEN "Connecting..."
    ELSE IF Contains(line, <<"Tunnel", "is", "ready">>) \/ Contains(line, <<"connect", "on", "port">>)
         THEN "Active"
         ELSE "none"

\* The status event a line gives (tunnel.go 123-127 and 146-150), or "none".
ClassifyStatus(line) ==
    IF Contains(line, <<"Tunnel", "is", "ready">>) \/ Contains(line, <<"connect", "on", "port">>)
    THEN "Active"
    ELSE IF Contains(line, <<"Opening", "tunnel">>)
         THEN "Connecting..."
         ELSE "none"

\* Mutant of IsErrorLine: the line is tested as it is written.
IsErrorLineExact(line) ==
    Contains(line, <<"error">>) \/ Contains(line, <<"failed">>)

\* The stderr reader's error test (tunnel.go 152).
IsErrorLine(line) ==
    Contains(ToLower(line), <<"error">>) \/ Contains(ToLower(line), <<"failed">>)

\* --------------------------------------------------------------- log buffer
OutEntry(line) == [prefix |-> "[OUT] ", text |-> line]
ErrEntry(line) == [prefix |-> "", text |-> line]
ExitEntry(err) == [prefix |-> "[ERR] Process exited: ", text |-> err]
WarnKillEntry == [prefix |-> "[WARN] Failed to kill process: ",
                  text |-> <<"os: process already finished">>]
WarnPortEntry == [prefix |-> "[WARN] Failed to kill Windows process by port: ",
                  text |-> <<"failed to run netstat">>]

\* Mutant of KeepLast: the slice keeps the first 100 entries.
KeepFirst(logs) ==
    IF Len(logs) > LogCap THEN SubSeq(logs, 1, LogCap) ELSE logs

\* tp.Logs = tp.Logs[len(tp.Logs)-100:]
KeepLast(logs) ==
    IF Len(logs) > LogCap THEN SubSeq(logs, Len(logs) - LogCap + 1, Len(logs)) ELSE logs

\* append, then keep the last 100 (the two readers).
AppendTrim(logs, entry) == KeepLast(Append(logs, entry))

\* append alone (the process-wait task and StopTunnel).
AppendOnly(logs, entry) == Append(logs, entry)

\* ---------------------------------------------------------------- variables
VARIABLES
    tunnels,    \* tm.tunnels: index -> handle, for the indexes in the map
    tp,         \* the TunnelProcess objects: queues, closed flags, Logs, Cancel
    proc,       \* the subprocess of each handle
    task,       \* the three goroutines StartTunnel starts for each handle
    caller,     \* the goroutines calling StartTunnel / StopTunnel
    nextH,      \* the next handle to allocate
    nlines,     \* lines read so far from each handle's subprocess (bounds the run)
    panicked,   \* a goroutine panicked (send on a closed channel)
    scope,      \* what the environment does in this run (see Scopes)
    ops,        \* the goroutine calling GetLogs / IsRunning / StopAll
    ui,         \* the presentation layer: its model and its listen commands
    now,        \* the clock, in seconds
    certs,      \* cm.certs: identity -> record, for the registered identities
    recs,       \* the CertInfo objects
    nextRec,    \* the next CertInfo object to allocate
    statusCh,   \* cm.statusCh
    ctxDone,    \* cm.ctx is cancelled
    loop,       \* the monitorLoop goroutine and its locals
    nextTick,   \* when the ticker of monitorLoop fires next
    att,        \* the renewCertificate goroutines
    starts,     \* history: for each identity, when its renewal attempts started
    api,        \* the goroutine calling GetStatus / GenerateCertificate
    disk        \* the certificate file of each identity (<key>-aadcert.pub)

tvars == <<tunnels, tp, proc, task, caller, nextH, nlines, panicked, scope, ops, ui>>
cvars == <<now, certs, recs, nextRec, statusCh, ctxDone, loop, nextTick, att, starts, api, disk>>
vars == <<tvars, cvars>>

\* ------------------------------------------- certificate manager: the state
CertIds == 1..NumCerts
Recs == 1..MaxRecs
\* A tick starts at most one renewCertificate goroutine for each record, so this
\* many can be alive at the same time.
MaxAttempts == NumCerts * MaxTicks
Attempts == 1..MaxAttempts

\* The clock moves in steps of a third of the check interval, up to MaxTime.
TimeStep == CheckInterval \div 3
MaxTime == MaxTicks * CheckInterval

\* time.Time{}: the zero time lies far before the run.
ZeroTime == 0 - 2 * CertLifetime

NoRec == [VMName |-> 0, ExpiresAt |-> ZeroTime, LastRenewalTry |-> ZeroTime,
          RenewalStatus |-> ""]
NoAttempt == [pc |-> "free", rec |-> 0, kind |-> "none", out |-> "none",
              output |-> "", was |-> ZeroTime]
NoFile == [exists |-> FALSE, expiresAt |-> ZeroTime]
IdleApi == [pc |-> "idle", op |-> "none", id |-> 0, err |-> "none",
            status |-> "", remaining |-> 0]
IdleLoop == [pc |-> "off", todo |-> <<>>, tickNow |-> 0,
             expiresAt |-> ZeroTime, lastTry |-> ZeroTime, status |-> ""]

\* NewCertificateManager
NewCertificateManager ==
    /\ now = 0
    /\ certs = <<>>
    /\ recs = [r \in Recs |-> NoRec]
    /\ nextRec = 1
    /\ statusCh = <<>>
    /\ ctxDone = FALSE
    /\ loop = IdleLoop
    /\ nextTick = 0
    /\ att = [a \in Attempts |-> NoAttempt]
    /\ starts = [id \in CertIds |-> <<>>]
    /\ api = IdleApi

NilErr == <<"nil">>
ExitErr == <<"exit status 1">>
KilledErr == <<"signal: killed">>

FreshTp == [index |-> 0, cancelled |-> FALSE,
            StatusCh |-> <<>>, ErrorCh |-> <<>>,
            statusClosed |-> FALSE, errorClosed |-> FALSE,
            Logs |-> <<>>]
NoProc == [state |-> "none", err |-> NilErr]
NoTask == [out |-> "none", outPend |-> "none",
           err |-> "none", errPendStatus |-> "none", errPendError |-> FALSE, errLine |-> <<>>,
           wait |-> "none"]
IdleCaller == [pc |-> "idle", op |-> "none", id |-> 0, h |-> NoHandle, res |-> "none", ret |-> NoHandle]

\* The caller of GetLogs, IsRunning and StopAll: the call and its locals, the
\* lock of the manager held at its last access to tm.tunnels ("Lock", "RLock"
\* or "none"), the keys the range of StopAll has produced, the stops that
\* failed, and the result: a slice with its own backing array (shared = 0) or
\* one that shares the array of a TunnelProcess.
IdleOps == [pc |-> "idle", op |-> "none", id |-> 0, h |-> NoHandle, lock |-> "none",
            seen |-> {}, failed |-> {}, logs |-> <<>>, shared |-> NoHandle,
            running |-> FALSE]

\* The presentation layer (package tui): m.tunnels with the ID and the Status
\* of each listed tunnel, the two channel maps (they always have the same
\* keys; a channel pair is told by the handle of its TunnelProcess), the ID
\* counter, the handler of a key press that is inside a call of the manager
\* (pc, pos), and the listen commands.  A position of the list is 1-based
\* here; the code passes the 0-based position to the manager as the index.
\* owner records for which tunnel ID each handle was started.
NoListener == [pc |-> "off", id |-> 0, h |-> NoHandle, isError |-> FALSE, status |-> "none"]
IdleUi == [tunnels |-> <<>>, channels |-> <<>>, nextTunnelID |-> 1,
           pc |-> "idle", pos |-> 0,
           lis |-> [k \in Handles |-> NoListener],
           owner |-> [h \in Handles |-> 0]]

\* The environment of one run: which callers use the API, how many spawns
\* succeed, how many lines the subprocesses write, whether a listener receives,
\* and the platform (runtime.GOOS == "windows").  Runs with concurrent callers
\* and several subprocesses are explored with silent subprocesses; output is
\* explored with one caller and one subprocess, on both platforms.
ConcurrentScope ==
    [callers |-> Callers, handles |-> MaxHandles, lines |-> 0,
     listener |-> FALSE, windows |-> FALSE, ids |-> {1}]
OutputScope(w) ==
    [callers |-> {1}, handles |-> 1, lines |-> MaxLines,
     listener |-> TRUE, windows |-> w]
Scopes == {ConcurrentScope} \cup {OutputScope(w) : w \in BOOLEAN}

\* NewTunnelManager
NewTunnelManager ==
    /\ tunnels = <<>>
    /\ tp = [h \in Handles |-> FreshTp]
    /\ proc = [h \in Handles |-> NoProc]
    /\ task = [h \in Handles |-> NoTask]
    /\ caller = [c \in Callers |-> IdleCaller]
    /\ nextH = 1
    /\ nlines = [h \in Handles |-> 0]
    /\ panicked = FALSE
    /\ ops = IdleOps
    /\ ui = IdleUi

\* The program after construction; the supervisor is the part that runs.
Init ==
    /\ NewTunnelManager
    /\ scope \in Scopes
    /\ NewCertificateManager
    /\ disk = [id \in CertIds |-> NoFile]

\* Mutant of MapDelete: the entry stays in the map.
MapDeleteNothing(m, index) == m

\* delete(tm.tunnels, index)
MapDelete(m, index) == [i \in (DOMAIN m) \ {index} |-> m[i]]

\* tm.tunnels[index] = tp
MapStore(m, index, h) == [i \in (DOMAIN m) \cup {index} |-> IF i = index THEN h ELSE m[i]]


\* A TunnelProcess whose subprocess and three goroutines have ended and that
\* neither the map nor a caller refers to is garbage.
Unreferenced(h) ==
    /\ proc[h].state = "exited"
    /\ task[h].wait = "done" /\ task[h].out = "scan" /\ task[h].err = "scan"
    /\ \A i \in DOMAIN tunnels : tunnels[i] # h
    /\ \A c \in Callers : caller[c].h # h
    /\ ops.h # h /\ ops.shared # h
    /\ \A k \in Handles : ui.lis[k].h # h
    /\ \A id \in DOMAIN ui.channels : ui.channels[id] # h

DeadTp == [FreshTp EXCEPT !.statusClosed = TRUE, !.errorClosed = TRUE]
DeadProc == [state |-> "exited", err |-> NilErr]
DeadTask == [NoTask EXCEPT !.out = "scan", !.err = "scan", !.wait = "done"]

Collected(h) == tp[h] = DeadTp /\ proc[h] = DeadProc /\ task[h] = DeadTask /\ nlines[h] = 0

\* The program runs: it has not panicked, and garbage is collected at once.
Live == ~panicked /\ \A h \in Handles : Unreferenced(h) => Collected(h)

\* The runtime frees a TunnelProcess nothing refers to.
Collect(h) ==
    /\ ~panicked
    /\ Unreferenced(h) /\ ~Collected(h)
    /\ tp' = [tp EXCEPT ![h] = DeadTp]
    /\ proc' = [proc EXCEPT ![h] = DeadProc]
    /\ task' = [task EXCEPT ![h] = DeadTask]
    /\ nlines' = [nlines EXCEPT ![h] = 0]
    /\ UNCHANGED <<tunnels, caller, nextH, panicked, scope, ops, ui, cvars>>

\* A send on a buffered channel that is full blocks the sender.
CanSend(q) == Len(q) < QueueCap

SetCaller(c, pc, op, id, h, res, ret) ==
    caller' = [caller EXCEPT ![c] = [pc |-> pc, op |-> op, id |-> id, h |-> h, res |-> res, ret |-> ret]]

\* ------------------------------------------------------------- StartTunnel
\* Mutant of AlreadyRunning: the test is left out.
AlreadyRunningNever(id) == FALSE

\* "Check if already running", under tm.mu.
AlreadyRunning(id) == id \in DOMAIN tunnels

\* tm.mu.Lock(); if _, exists := tm.tunnels[index]; exists {...}; tm.mu.Unlock()
StartCheck(c, id) ==
    /\ Live
    /\ c \in scope.callers
    /\ caller[c].pc = "idle"
    /\ IF AlreadyRunning(id)
       THEN SetCaller(c, "done", "StartTunnel", id, NoHandle, "tunnel already running", NoHandle)
       ELSE SetCaller(c, "start_spawn", "StartTunnel", id, NoHandle, "none", NoHandle)
    /\ UNCHANGED <<tunnels, tp, proc, task, nextH, nlines, panicked, scope, ops, ui, cvars>>

\* Mutant of StartSpawn: a failed spawn leaves an entry for the id in the map.
StartSpawnRegisters(c) ==
    /\ Live
    /\ caller[c].pc = "start_spawn"
    /\ \/ /\ SetCaller(c, "done", "StartTunnel", caller[c].id, NoHandle, "failed to start tunnel", NoHandle)
          /\ tunnels' = MapStore(tunnels, caller[c].id, 1)
          /\ UNCHANGED <<tp, proc, nextH>>
       \/ /\ nextH <= scope.handles
          /\ proc' = [proc EXCEPT ![nextH] = [state |-> "running", err |-> NilErr]]
          /\ tp' = [tp EXCEPT ![nextH] = [FreshTp EXCEPT !.index = caller[c].id]]
          /\ nextH' = nextH + 1
          /\ SetCaller(c, "start_store", "StartTunnel", caller[c].id, nextH, "none", NoHandle)
          /\ UNCHANGED tunnels
    /\ UNCHANGED <<task, nlines, panicked, scope, ops, ui, cvars>>

\* cmd.StdoutPipe(), cmd.StderrPipe(), cmd.Start(): on an error cancel() and
\* return it; otherwise the subprocess runs and the TunnelProcess is built.
StartSpawn(c) ==
    /\ Live
    /\ caller[c].pc = "start_spawn"
    /\ \/ /\ SetCaller(c, "done", "StartTunnel", caller[c].id, NoHandle, "failed to start tunnel", NoHandle)
          /\ UNCHANGED <<tp, proc, nextH>>
       \/ /\ nextH <= scope.handles
          /\ proc' = [proc EXCEPT ![nextH] = [state |-> "running", err |-> NilErr]]
          /\ tp' = [tp EXCEPT ![nextH] = [FreshTp EXCEPT !.index = caller[c].id]]
          /\ nextH' = nextH + 1
          /\ SetCaller(c, "start_store", "StartTunnel", caller[c].id, nextH, "none", NoHandle)
    /\ UNCHANGED <<tunnels, task, nlines, panicked, scope, ops, ui, cvars>>

\* tm.mu.Lock(); tm.tunnels[index] = tp; tm.mu.Unlock()
StartStore(c) ==
    /\ Live
    /\ caller[c].pc = "start_store"
    /\ tunnels' = MapStore(tunnels, caller[c].id, caller[c].h)
    /\ SetCaller(c, "start_send", "StartTunnel", caller[c].id, caller[c].h, "none", NoHandle)
    /\ UNCHANGED <<tp, proc, task, nextH, nlines, panicked, scope, ops, ui, cvars>>

\* Mutant of StartSend: the goroutines are started and nothing is sent.
StartSendNothing(c) ==
    LET h == caller[c].h IN
    /\ Live
    /\ caller[c].pc = "start_send"
    /\ task' = [task EXCEPT ![h] = [NoTask EXCEPT !.out = "scan", !.err = "scan", !.wait = "wait"]]
    /\ SetCaller(c, "done", "StartTunnel", caller[c].id, h, "ok", h)
    /\ UNCHANGED <<tunnels, tp, proc, nextH, nlines, panicked, scope, ops, ui, cvars>>

\* statusCh <- "Connecting..."; the three go statements; return statusCh, errorCh, nil
StartSend(c) ==
    LET h == caller[c].h IN
    /\ Live
    /\ caller[c].pc = "start_send"
    /\ CanSend(tp[h].StatusCh)
    /\ tp' = [tp EXCEPT ![h].StatusCh = Append(@, "Connecting...")]
    /\ task' = [task EXCEPT ![h] = [NoTask EXCEPT !.out = "scan", !.err = "scan", !.wait = "wait"]]
    /\ SetCaller(c, "done", "StartTunnel", caller[c].id, h, "ok", h)
    /\ UNCHANGED <<tunnels, proc, nextH, nlines, panicked, scope, ops, ui, cvars>>

\* ------------------------------------------------------------ the subprocess
\* The subprocess ends by itself, with exit code zero or not.
ProcExit(h, err) ==
    /\ Live
    /\ proc[h].state = "running"
    /\ proc' = [proc EXCEPT ![h] = [state |-> "exited", err |-> err]]
    /\ UNCHANGED <<tunnels, tp, task, caller, nextH, nlines, panicked, scope, ops, ui, cvars>>

\* A pipe can be read until cmd.Wait has returned (Wait closes it).
PipeOpen(h) == task[h].wait = "wait"

\* ------------------------------------------------------------ stdout reader
\* scanner.Scan() gave a line: store it in the log, classify it.
OutRead(h, line) ==
    LET ev == ClassifyStatus(line) IN
    /\ Live
    /\ task[h].out = "scan"
    /\ PipeOpen(h)
    /\ nlines[h] < scope.lines
    /\ nlines' = [nlines EXCEPT ![h] = @ + 1]
    /\ tp' = [tp EXCEPT ![h].Logs = AppendTrim(@, OutEntry(line))]
    /\ task' = [task EXCEPT ![h].out = IF ev = "none" THEN "scan" ELSE "send",
                            ![h].outPend = ev]
    /\ UNCHANGED <<tunnels, proc, caller, nextH, panicked, scope, ops, ui, cvars>>

\* Mutant of OutSend: the event overtakes the events that are queued.
OutSendFront(h) ==
    /\ Live
    /\ task[h].out = "send"
    /\ IF tp[h].statusClosed
       THEN /\ panicked' = TRUE
            /\ UNCHANGED <<tp, task>>
       ELSE /\ CanSend(tp[h].StatusCh)
            /\ tp' = [tp EXCEPT ![h].StatusCh = <<task[h].outPend>> \o @]
            /\ task' = [task EXCEPT ![h].out = "scan", ![h].outPend = "none"]
            /\ UNCHANGED panicked
    /\ UNCHANGED <<tunnels, proc, caller, nextH, nlines, scope, ops, ui, cvars>>

\* statusCh <- "Active" / statusCh <- "Connecting..."
OutSend(h) ==
    /\ Live
    /\ task[h].out = "send"
    /\ IF tp[h].statusClosed
       THEN /\ panicked' = TRUE
            /\ UNCHANGED <<tp, task>>
       ELSE /\ CanSend(tp[h].StatusCh)
            /\ tp' = [tp EXCEPT ![h].StatusCh = Append(@, task[h].outPend)]
            /\ task' = [task EXCEPT ![h].out = "scan", ![h].outPend = "none"]
            /\ UNCHANGED panicked
    /\ UNCHANGED <<tunnels, proc, caller, nextH, nlines, scope, ops, ui, cvars>>

\* ------------------------------------------------------------ stderr reader
ErrNextPc(ev, isErr) ==
    IF ev # "none" THEN "send_status" ELSE IF isErr THEN "send_error" ELSE "scan"

\* scanner.Scan() gave a line; an empty line is skipped.
ErrRead(h, line) ==
    LET ev == ClassifyStatus(line)
        isErr == IsErrorLine(line) IN
    /\ Live
    /\ task[h].err = "scan"
    /\ PipeOpen(h)
    /\ nlines[h] < scope.lines
    /\ nlines' = [nlines EXCEPT ![h] = @ + 1]
    /\ IF line # EmptyLine
       THEN /\ tp' = [tp EXCEPT ![h].Logs = AppendTrim(@, ErrEntry(line))]
            /\ task' = [task EXCEPT ![h].err = ErrNextPc(ev, isErr),
                                    ![h].errPendStatus = ev,
                                    ![h].errPendError = isErr,
                                    ![h].errLine = IF isErr THEN line ELSE <<>>]
       ELSE UNCHANGED <<tp, task>>
    /\ UNCHANGED <<tunnels, proc, caller, nextH, panicked, scope, ops, ui, cvars>>

ErrSendStatus(h) ==
    /\ Live
    /\ task[h].err = "send_status"
    /\ IF tp[h].statusClosed
       THEN /\ panicked' = TRUE
            /\ UNCHANGED <<tp, task>>
       ELSE /\ CanSend(tp[h].StatusCh)
            /\ tp' = [tp EXCEPT ![h].StatusCh = Append(@, task[h].errPendStatus)]
            /\ task' = [task EXCEPT ![h].err = ErrNextPc("none", task[h].errPendError),
                                    ![h].errPendStatus = "none"]
            /\ UNCHANGED panicked
    /\ UNCHANGED <<tunnels, proc, caller, nextH, nlines, scope, ops, ui, cvars>>

\* errorCh <- fmt.Errorf("%s", line)
ErrSendError(h) ==
    /\ Live
    /\ task[h].err = "send_error"
    /\ IF tp[h].errorClosed
       THEN /\ panicked' = TRUE
            /\ UNCHANGED <<tp, task>>
       ELSE /\ CanSend(tp[h].ErrorCh)
            /\ tp' = [tp EXCEPT ![h].ErrorCh = Append(@, task[h].errLine)]
            /\ task' = [task EXCEPT ![h].err = "scan", ![h].errPendError = FALSE,
                                    ![h].errLine = <<>>]
            /\ UNCHANGED panicked
    /\ UNCHANGED <<tunnels, proc, caller, nextH, nlines, scope, ops, ui, cvars>>


\* ---------------------------------------------------------- process-wait task
\* err := cmd.Wait() returns once the subprocess has ended; if err != nil
\* tp.Logs = append(tp.Logs, "[ERR] Process exited: ...")
WaitReturn(h) ==
    /\ Live
    /\ task[h].wait = "wait"
    /\ proc[h].state = "exited"
    /\ IF proc[h].err # NilErr
       THEN /\ tp' = [tp EXCEPT ![h].Logs = AppendOnly(@, ExitEntry(proc[h].err))]
            /\ task' = [task EXCEPT ![h].wait = "send"]
       ELSE /\ task' = [task EXCEPT ![h].wait = "delete"]
            /\ UNCHANGED tp
    /\ UNCHANGED <<tunnels, proc, caller, nextH, nlines, panicked, scope, ops, ui, cvars>>

ExitError(err) == <<"tunnel process exited:">> \o err

\* errorCh <- fmt.Errorf("tunnel process exited: %w", err)
WaitSend(h) ==
    /\ Live
    /\ task[h].wait = "send"
    /\ CanSend(tp[h].ErrorCh)
    /\ tp' = [tp EXCEPT ![h].ErrorCh = Append(@, ExitError(proc[h].err))]
    /\ task' = [task EXCEPT ![h].wait = "delete"]
    /\ UNCHANGED <<tunnels, proc, caller, nextH, nlines, panicked, scope, ops, ui, cvars>>

\* Mutant of WaitDelete: the task goes on to close the queues and leaves the map.
WaitDeleteSkips(h) ==
    /\ Live
    /\ task[h].wait = "delete"
    /\ task' = [task EXCEPT ![h].wait = "close_status"]
    /\ UNCHANGED <<tunnels, tp, proc, caller, nextH, nlines, panicked, scope, ops, ui, cvars>>

\* tm.mu.Lock(); delete(tm.tunnels, index); tm.mu.Unlock()
WaitDelete(h) ==
    /\ Live
    /\ task[h].wait = "delete"
    /\ tunnels' = MapDelete(tunnels, tp[h].index)
    /\ task' = [task EXCEPT ![h].wait = "close_status"]
    /\ UNCHANGED <<tp, proc, caller, nextH, nlines, panicked, scope, ops, ui, cvars>>

\* close(statusCh)
WaitCloseStatus(h) ==
    /\ Live
    /\ task[h].wait = "close_status"
    /\ tp' = [tp EXCEPT ![h].statusClosed = TRUE]
    /\ task' = [task EXCEPT ![h].wait = "close_error"]
    /\ UNCHANGED <<tunnels, proc, caller, nextH, nlines, panicked, scope, ops, ui, cvars>>

\* close(errorCh)
WaitCloseError(h) ==
    /\ Live
    /\ task[h].wait = "close_error"
    /\ tp' = [tp EXCEPT ![h].errorClosed = TRUE]
    /\ task' = [task EXCEPT ![h].wait = "done"]
    /\ UNCHANGED <<tunnels, proc, caller, nextH, nlines, panicked, scope, ops, ui, cvars>>

\* -------------------------------------------------------------- StopTunnel
\* Mutant of StopCheck: stopping a tunnel that is not running returns nil.
StopCheckSilent(c, id) ==
    /\ Live
    /\ c \in scope.callers
    /\ caller[c].pc = "idle"
    /\ IF id \in DOMAIN tunnels
       THEN SetCaller(c, "stop_kill", "StopTunnel", id, tunnels[id], "none", NoHandle)
       ELSE SetCaller(c, "done", "StopTunnel", id, NoHandle, "ok", NoHandle)
    /\ UNCHANGED <<tunnels, tp, proc, task, nextH, nlines, panicked, scope, ops, ui, cvars>>

\* tm.mu.Lock(); tp, exists := tm.tunnels[index]; tm.mu.Unlock(); if !exists {...}
StopCheck(c, id) ==
    /\ Live
    /\ c \in scope.callers
    /\ caller[c].pc = "idle"
    /\ IF id \in DOMAIN tunnels
       THEN SetCaller(c, "stop_kill", "StopTunnel", id, tunnels[id], "none", NoHandle)
       ELSE SetCaller(c, "done", "StopTunnel", id, NoHandle, "tunnel not running", NoHandle)
    /\ UNCHANGED <<tunnels, tp, proc, task, nextH, nlines, panicked, scope, ops, ui, cvars>>

\* Process.Kill fails once the subprocess has been waited for.
KillFails(h) == task[h].wait \notin {"none", "wait"}

\* tp.Cancel(); tp.Cmd.Process.Kill(): the subprocess is dead when Kill returns
\* nil; on an error the warning goes to the log.
StopKill(c) ==
    LET h == caller[c].h IN
    /\ Live
    /\ caller[c].pc = "stop_kill"
    /\ IF KillFails(h)
       THEN /\ tp' = [tp EXCEPT ![h].cancelled = TRUE,
                                ![h].Logs = AppendOnly(@, WarnKillEntry)]
            /\ UNCHANGED proc
       ELSE /\ tp' = [tp EXCEPT ![h].cancelled = TRUE]
            /\ proc' = [proc EXCEPT ![h] = IF @.state = "running"
                                           THEN [state |-> "exited", err |-> KilledErr]
                                           ELSE @]
    /\ SetCaller(c, IF scope.windows THEN "stop_winkill" ELSE "stop_delete",
                 "StopTunnel", caller[c].id, h, "none", NoHandle)
    /\ UNCHANGED <<tunnels, task, nextH, nlines, panicked, scope, ops, ui, cvars>>

\* if runtime.GOOS == "windows": killWindowsProcessByPort, which may fail.
StopWinKill(c) ==
    LET h == caller[c].h IN
    /\ Live
    /\ caller[c].pc = "stop_winkill"
    /\ \/ UNCHANGED tp
       \/ tp' = [tp EXCEPT ![h].Logs = AppendOnly(@, WarnPortEntry)]
    /\ SetCaller(c, "stop_delete", "StopTunnel", caller[c].id, h, "none", NoHandle)
    /\ UNCHANGED <<tunnels, proc, task, nextH, nlines, panicked, scope, ops, ui, cvars>>

\* tm.mu.Lock(); delete(tm.tunnels, index); tm.mu.Unlock(); return nil
StopDelete(c) ==
    /\ Live
    /\ caller[c].pc = "stop_delete"
    /\ tunnels' = MapDelete(tunnels, caller[c].id)
    /\ SetCaller(c, "done", "StopTunnel", caller[c].id, caller[c].h, "ok", NoHandle)
    /\ UNCHANGED <<tp, proc, task, nextH, nlines, panicked, scope, ops, ui, cvars>>

\* The caller has the result and is free to call again.
CallerReturn(c) ==
    /\ Live
    /\ caller[c].pc = "done"
    /\ caller' = [caller EXCEPT ![c] = IdleCaller]
    /\ UNCHANGED <<tunnels, tp, proc, task, nextH, nlines, panicked, scope, ops, ui, cvars>>

\* ---------------------------------------------------------------- consumer
\* A listener takes the oldest event of a status queue.
RecvStatus(h) ==
    /\ Live
    /\ scope.listener
    /\ Len(tp[h].StatusCh) > 0
    /\ tp' = [tp EXCEPT ![h].StatusCh = Tail(@)]
    /\ UNCHANGED <<tunnels, proc, task, caller, nextH, nlines, panicked, scope, ops, ui, cvars>>

\* A listener takes the oldest event of an error queue.
RecvError(h) ==
    /\ Live
    /\ scope.listener
    /\ Len(tp[h].ErrorCh) > 0
    /\ tp' = [tp EXCEPT ![h].ErrorCh = Tail(@)]
    /\ UNCHANGED <<tunnels, proc, task, caller, nextH, nlines, panicked, scope, ops, ui, cvars>>

\* ------------------------------------------------------------ specification
Next ==
    \/ \E c \in Callers, id \in TunnelIds : StartCheck(c, id)
    \/ \E c \in Callers : StartSpawn(c)
    \/ \E c \in Callers : StartStore(c)
    \/ \E c \in Callers : StartSend(c)
    \/ \E h \in Handles, err \in {NilErr, ExitErr} : ProcExit(h, err)
    \/ \E h \in Handles, line \in Lines : OutRead(h, line)
    \/ \E h \in Handles : OutSend(h)
    \/ \E h \in Handles, line \in Lines : ErrRead(h, line)
    \/ \E h \in Handles : ErrSendStatus(h)
    \/ \E h \in Handles : ErrSendError(h)
    \/ \E h \in Handles : WaitReturn(h)
    \/ \E h \in Handles : WaitSend(h)
    \/ \E h \in Handles : WaitDelete(h)
    \/ \E h \in Handles : WaitCloseStatus(h)
    \/ \E h \in Handles : WaitCloseError(h)
    \/ \E c \in Callers, id \in TunnelIds : StopCheck(c, id)
    \/ \E c \in Callers : StopKill(c)
    \/ \E c \in Callers : StopWinKill(c)
    \/ \E c \in Callers : StopDelete(c)
    \/ \E c \in Callers : CallerReturn(c)
    \/ \E h \in Handles : RecvStatus(h)
    \/ \E h \in Handles : RecvError(h)
    \/ \E h \in Handles : Collect(h)

Spec == Init /\ [][Next]_vars



\* ------------------------------------------------- a tunnel that has been up
\* The log and the queues of a tunnel whose subprocess has written n lines,
\* "Tunnel is ready" lines on stdout alternating with error lines on stderr,
\* and whose listener took all but the newest events and then stopped reading.
PastLogs(n) == [i \in 1..n |-> IF i % 2 = 1 THEN OutEntry(ReadyLine) ELSE ErrEntry(ErrorLine)]
PastStatus(n) == [i \in 1..n |-> "Active"]
PastErrors(n) == [i \in 1..n |-> ErrorLine]

LongRunScope(w) == [OutputScope(w) EXCEPT !.listener = FALSE]

\* Tunnel 1 was started on a new manager and has been up for a while.
LongRunning ==
    /\ scope \in {LongRunScope(w) : w \in BOOLEAN}
    /\ tunnels = [i \in {1} |-> 1]
    /\ \E nLog \in {LogCap - 1, LogCap}, nStatus \in {QueueCap - 1, QueueCap} :
          tp = [h \in Handles |->
                  IF h = 1
                  THEN [FreshTp EXCEPT !.index = 1,
                                       !.Logs = PastLogs(nLog),
                                       !.StatusCh = PastStatus(nStatus),
                                       !.ErrorCh = PastErrors(QueueCap - 1)]
                  ELSE FreshTp]
    /\ proc = [h \in Handles |-> IF h = 1 THEN [state |-> "running", err |-> NilErr] ELSE NoProc]
    /\ task = [h \in Handles |->
                  IF h = 1 THEN [NoTask EXCEPT !.out = "scan", !.err = "scan", !.wait = "wait"]
                  ELSE NoTask]
    /\ caller = [c \in Callers |-> IdleCaller]
    /\ nextH = 2
    /\ nlines = [h \in Handles |-> 0]
    /\ panicked = FALSE
    /\ ops = IdleOps
    /\ ui = IdleUi
    /\ NewCertificateManager
    /\ disk = [id \in CertIds |-> NoFile]

\* The supervisor from a new manager, or from a tunnel that has been up.
InitLongRun == Init \/ LongRunning

SpecLongRun == InitLongRun /\ [][Next]_vars

\* The goroutines of the supervisor are scheduled fairly; the subprocess, the
\* callers' decisions to call and the listener are not.
WaitStep(h) ==
    WaitReturn(h) \/ WaitSend(h) \/ WaitDelete(h) \/ WaitCloseStatus(h) \/ WaitCloseError(h)
ReaderStep(h) == OutSend(h) \/ ErrSendStatus(h) \/ ErrSendError(h)
CallStep(c) ==
    StartSpawn(c) \/ StartStore(c) \/ StartSend(c) \/ StopKill(c) \/ StopWinKill(c)
        \/ StopDelete(c) \/ CallerReturn(c)

Fairness ==
    /\ \A h \in Handles : WF_vars(WaitStep(h)) /\ WF_vars(ReaderStep(h)) /\ WF_vars(Collect(h))
    /\ \A c \in Callers : WF_vars(CallStep(c))

FairLongRun == SpecLongRun /\ Fairness

\* ------------------------------------------- GetLogs, IsRunning, StopAll
NotRunningEntry == [prefix |-> "", text |-> <<"Tunnel", "not", "running">>]

\* Another goroutine is at its write of tm.tunnels.
MapWriterReady ==
    \/ \E h \in Handles : task[h].wait = "delete"
    \/ \E c \in Callers : caller[c].pc \in {"start_store", "stop_delete"}

\* GetLogs: tm.mu.RLock(); tp, exists := tm.tunnels[index]; tm.mu.RUnlock();
\* if !exists return []string{"Tunnel not running"}
GetLogsLookup(id) ==
    /\ Live
    /\ ops.pc = "idle"
    /\ ops' = IF id \in DOMAIN tunnels
              THEN [IdleOps EXCEPT !.pc = "logs_copy", !.op = "GetLogs", !.id = id,
                                   !.h = tunnels[id], !.lock = "RLock"]
              ELSE [IdleOps EXCEPT !.pc = "done", !.op = "GetLogs", !.id = id,
                                   !.lock = "RLock", !.logs = <<NotRunningEntry>>]
    /\ UNCHANGED <<tunnels, tp, proc, task, caller, nextH, nlines, panicked, scope, ui, cvars>>

\* Mutant of GetLogsCopy: return tp.Logs itself.
GetLogsCopyShared ==
    /\ Live
    /\ ops.pc = "logs_copy"
    /\ ops' = [ops EXCEPT !.pc = "done", !.shared = ops.h, !.h = NoHandle]
    /\ UNCHANGED <<tunnels, tp, proc, task, caller, nextH, nlines, panicked, scope, ui, cvars>>

\* tp.mu.RLock(); logsCopy := make([]string, len(tp.Logs)); copy(logsCopy, tp.Logs)
GetLogsCopy ==
    /\ Live
    /\ ops.pc = "logs_copy"
    /\ ops' = [ops EXCEPT !.pc = "done", !.logs = tp[ops.h].Logs, !.h = NoHandle]
    /\ UNCHANGED <<tunnels, tp, proc, task, caller, nextH, nlines, panicked, scope, ui, cvars>>

\* The slice the caller of GetLogs holds, as it reads now.
ReturnedLogs == IF ops.shared # NoHandle THEN tp[ops.shared].Logs ELSE ops.logs

\* IsRunning: _, exists := tm.tunnels[index], with no lock taken.  Reading the
\* map while another goroutine writes it is a data race: the runtime ends the
\* program ("concurrent map read and map write") or the read goes through.
IsRunning(id) ==
    /\ Live
    /\ ops.pc = "idle"
    /\ \/ /\ ops' = [IdleOps EXCEPT !.pc = "done", !.op = "IsRunning", !.id = id,
                                    !.lock = "none", !.running = (id \in DOMAIN tunnels)]
          /\ UNCHANGED panicked
       \/ /\ MapWriterReady
          /\ panicked' = TRUE
          /\ ops' = [IdleOps EXCEPT !.pc = "fatal", !.op = "IsRunning", !.id = id, !.lock = "none"]
    /\ UNCHANGED <<tunnels, tp, proc, task, caller, nextH, nlines, scope, ui, cvars>>

\* StopAll: for index := range tm.tunnels, with no lock taken.  The range
\* produces a key that is in the map and that it has not produced, or ends;
\* iterating while another goroutine writes the map is a data race.
AllRange ==
    LET rest == (DOMAIN tunnels) \ ops.seen IN
    /\ Live
    /\ ops.pc \in {"idle", "all_next"}
    /\ \/ /\ rest = {}
          /\ ops' = [ops EXCEPT !.pc = "done", !.op = "StopAll", !.id = 0, !.lock = "none"]
          /\ UNCHANGED panicked
       \/ /\ \E index \in rest :
                ops' = [ops EXCEPT !.pc = "all_check", !.op = "StopAll", !.id = index,
                                   !.seen = @ \cup {index}, !.lock = "none"]
          /\ UNCHANGED panicked
       \/ /\ MapWriterReady
          /\ panicked' = TRUE
          /\ ops' = [ops EXCEPT !.pc = "fatal", !.op = "StopAll", !.lock = "none"]
    /\ UNCHANGED <<tunnels, tp, proc, task, caller, nextH, nlines, scope, ui, cvars>>

\* Mutant of AllCheck: StopAll returns at the first stop that fails.
AllCheckReturns ==
    /\ Live
    /\ ops.pc = "all_check"
    /\ ops' = IF ops.id \in DOMAIN tunnels
              THEN [ops EXCEPT !.pc = "all_kill", !.h = tunnels[ops.id], !.lock = "Lock"]
              ELSE [ops EXCEPT !.pc = "done", !.failed = @ \cup {ops.id}, !.lock = "Lock"]
    /\ UNCHANGED <<tunnels, tp, proc, task, caller, nextH, nlines, panicked, scope, ui, cvars>>

\* tm.StopTunnel(index): the lookup under tm.mu; on "tunnel not running" the
\* error is printed and the range goes on.
AllCheck ==
    /\ Live
    /\ ops.pc = "all_check"
    /\ ops' = IF ops.id \in DOMAIN tunnels
              THEN [ops EXCEPT !.pc = "all_kill", !.h = tunnels[ops.id], !.lock = "Lock"]
              ELSE [ops EXCEPT !.pc = "all_next", !.failed = @ \cup {ops.id}, !.lock = "Lock"]
    /\ UNCHANGED <<tunnels, tp, proc, task, caller, nextH, nlines, panicked, scope, ui, cvars>>

\* tm.StopTunnel(index): tp.Cancel(); tp.Cmd.Process.Kill()
AllKill ==
    LET h == ops.h IN
    /\ Live
    /\ ops.pc = "all_kill"
    /\ IF KillFails(h)
       THEN /\ tp' = [tp EXCEPT ![h].cancelled = TRUE,
                                ![h].Logs = AppendOnly(@, WarnKillEntry)]
            /\ UNCHANGED proc
       ELSE /\ tp' = [tp EXCEPT ![h].cancelled = TRUE]
            /\ proc' = [proc EXCEPT ![h] = IF @.state = "running"
                                           THEN [state |-> "exited", err |-> KilledErr]
                                           ELSE @]
    /\ ops' = [ops EXCEPT !.pc = IF scope.windows THEN "all_winkill" ELSE "all_delete"]
    /\ UNCHANGED <<tunnels, task, caller, nextH, nlines, panicked, scope, ui, cvars>>

\* tm.StopTunnel(index): killWindowsProcessByPort, which may fail.
AllWinKill ==
    LET h == ops.h IN
    /\ Live
    /\ ops.pc = "all_winkill"
    /\ \/ UNCHANGED tp
       \/ tp' = [tp EXCEPT ![h].Logs = AppendOnly(@, WarnPortEntry)]
    /\ ops' = [ops EXCEPT !.pc = "all_delete"]
    /\ UNCHANGED <<tunnels, proc, task, caller, nextH, nlines, panicked, scope, ui, cvars>>

\* tm.StopTunnel(index): tm.mu.Lock(); delete(tm.tunnels, index); tm.mu.Unlock()
AllDelete ==
    /\ Live
    /\ ops.pc = "all_delete"
    /\ tunnels' = MapDelete(tunnels, ops.id)
    /\ ops' = [ops EXCEPT !.pc = "all_next", !.h = NoHandle, !.lock = "Lock"]
    /\ UNCHANGED <<tp, proc, task, caller, nextH, nlines, panicked, scope, ui, cvars>>

\* The caller has the result and is free to call again.
OpsReturn ==
    /\ Live
    /\ ops.pc = "done"
    /\ ops' = IdleOps
    /\ UNCHANGED <<tunnels, tp, proc, task, caller, nextH, nlines, panicked, scope, ui, cvars>>

\* Every handle is a tunnel that StartTunnel has started, with its id.
Started ==
    /\ tunnels = [h \in Handles |-> h]
    /\ tp = [h \in Handles |-> [FreshTp EXCEPT !.index = h, !.StatusCh = <<"Connecting...">>]]
    /\ proc = [h \in Handles |-> [state |-> "running", err |-> NilErr]]
    /\ task = [h \in Handles |-> [NoTask EXCEPT !.out = "scan", !.err = "scan", !.wait = "wait"]]
    /\ caller = [c \in Callers |-> IdleCaller]
    /\ nextH = MaxHandles + 1
    /\ nlines = [h \in Handles |-> 0]
    /\ panicked = FALSE
    /\ ops = IdleOps
    /\ ui = IdleUi

\* No StartTunnel or StopTunnel is called and nobody receives; the
\* subprocesses exit by themselves.  One of the three operations is called in a
\* run: GetLogs while the subprocesses write, or IsRunning, or StopAll on
\* either platform.
OpsScope(op, w) ==
    [callers |-> {}, handles |-> MaxHandles,
     lines |-> IF op = "GetLogs" THEN MaxLines ELSE 0,
     listener |-> FALSE, windows |-> w, op |-> op]
OpsScopes ==
    {OpsScope("GetLogs", FALSE), OpsScope("IsRunning", FALSE)}
        \cup {OpsScope("StopAll", w) : w \in BOOLEAN}

NextOps ==
    \/ \E h \in Handles, err \in {NilErr, ExitErr} : ProcExit(h, err)
    \/ \E h \in Handles, line \in Lines : OutRead(h, line)
    \/ \E h \in Handles : OutSend(h)
    \/ \E h \in Handles, line \in Lines : ErrRead(h, line)
    \/ \E h \in Handles : ErrSendStatus(h)
    \/ \E h \in Handles : ErrSendError(h)
    \/ \E h \in Handles : WaitReturn(h)
    \/ \E h \in Handles : WaitSend(h)
    \/ \E h \in Handles : WaitDelete(h)
    \/ \E h \in Handles : WaitCloseStatus(h)
    \/ \E h \in Handles : WaitCloseError(h)
    \/ \E h \in Handles : Collect(h)
    \/ scope.op = "GetLogs" /\ \E id \in Handles : GetLogsLookup(id)
    \/ GetLogsCopy
    \/ scope.op = "IsRunning" /\ \E id \in Handles : IsRunning(id)
    \/ scope.op = "StopAll" /\ AllRange
    \/ AllCheck
    \/ AllKill
    \/ AllWinKill
    \/ AllDelete
    \/ OpsReturn

InitOps ==
    /\ Started
    /\ scope \in OpsScopes
    /\ NewCertificateManager
    /\ disk = [id \in CertIds |-> NoFile]

SpecOps == InitOps /\ [][NextOps]_vars

\* ------------------------------------------------ a subprocess that talks
\* The lines of a subprocess whose output is classified.
ScriptLines == {ReadyLine, OpeningLine, PortLine, BothLine, ErrorLine, EmptyLine}

\* One caller starts one tunnel; its subprocess writes ScriptLen lines, each
\* on either stream, and keeps running; nobody receives.
ScriptScope ==
    [callers |-> {1}, handles |-> 1, lines |-> ScriptLen,
     listener |-> FALSE, windows |-> FALSE]

NextScript ==
    \/ \E c \in Callers, id \in TunnelIds : StartCheck(c, id)
    \/ \E c \in Callers : StartSpawn(c)
    \/ \E c \in Callers : StartStore(c)
    \/ \E c \in Callers : StartSend(c)
    \/ \E h \in Handles, line \in ScriptLines : OutRead(h, line)
    \/ \E h \in Handles : OutSend(h)
    \/ \E h \in Handles, line \in ScriptLines : ErrRead(h, line)
    \/ \E h \in Handles : ErrSendStatus(h)
    \/ \E h \in Handles : ErrSendError(h)
    \/ \E c \in Callers : CallerReturn(c)

InitScript ==
    /\ NewTunnelManager
    /\ scope = ScriptScope
    /\ NewCertificateManager
    /\ disk = [id \in CertIds |-> NoFile]

SpecScript == InitScript /\ [][NextScript]_vars

\* ------------------------------------- a subprocess that reports problems
\* Lines with the error words in several letter cases, with and without a
\* status phrase, a line with no phrase at all and the empty line.
MixedLines ==
    {FailedPortLine, MixedErrorLine, UpperFailedLine, ErrorLine, OpeningLine,
     PlainLine, EmptyLine}

\* As SpecScript, with the subprocess writing lines of MixedLines.
NextMixed ==
    \/ \E c \in Callers, id \in TunnelIds : StartCheck(c, id)
    \/ \E c \in Callers : StartSpawn(c)
    \/ \E c \in Callers : StartStore(c)
    \/ \E c \in Callers : StartSend(c)
    \/ \E h \in Handles, line \in MixedLines : OutRead(h, line)
    \/ \E h \in Handles : OutSend(h)
    \/ \E h \in Handles, line \in MixedLines : ErrRead(h, line)
    \/ \E h \in Handles : ErrSendStatus(h)
    \/ \E h \in Handles : ErrSendError(h)
    \/ \E c \in Callers : CallerReturn(c)

InitMixed ==
    /\ NewTunnelManager
    /\ scope = ScriptScope
    /\ NewCertificateManager
    /\ disk = [id \in CertIds |-> NoFile]

SpecMixed == InitMixed /\ [][NextMixed]_vars

\* ------------------------------------------------- the presentation layer
\* tunnel.Status = "Error: " + err.Error()
ErrStatus(res) ==
    CASE res = "tunnel already running" -> "Error: tunnel already running"
      [] res = "tunnel not running" -> "Error: tunnel not running"
      [] OTHER -> "Error: failed to start tunnel"

SetStatus(list, pos, status) == [list EXCEPT ![pos].Status = status]

\* append(m.tunnels[:i], m.tunnels[i+1:]...)
RemoveAt(list, pos) == SubSeq(list, 1, pos - 1) \o SubSeq(list, pos + 1, Len(list))

\* for i := range m.tunnels { if m.tunnels[i].ID == msg.TunnelID {...} }
PosOf(id) == {i \in DOMAIN ui.tunnels : ui.tunnels[i].ID = id}

\* listenForTunnelUpdates(id, statusCh, errorCh) with the channels stored for
\* the ID, when both maps have them.
Relisten(id) ==
    IF id \in DOMAIN ui.channels
    THEN [NoListener EXCEPT !.pc = "select", !.id = id, !.h = ui.channels[id]]
    ELSE NoListener

\* The create flow ends: a tunnel with the next ID is appended as Inactive.
UiCreate ==
    /\ Live
    /\ ui.pc = "idle"
    /\ ui.nextTunnelID <= scope.tunnels
    /\ ui' = [ui EXCEPT !.tunnels = Append(@, [ID |-> ui.nextTunnelID, Status |-> "Inactive"]),
                        !.nextTunnelID = @ + 1]
    /\ UNCHANGED <<tunnels, tp, proc, task, caller, nextH, nlines, panicked, scope, ops, cvars>>

\* Enter with the cursor on pos: an Inactive tunnel is marked Starting and
\* StartTunnel(cursor, tunnel) is called, an Active one has StopTunnel(cursor)
\* called; with any other status nothing is done.
UiEnter(pos) ==
    /\ Live
    /\ ui.pc = "idle"
    /\ pos \in DOMAIN ui.tunnels
    /\ \/ /\ ui.tunnels[pos].Status = "Inactive"
          /\ ui' = [ui EXCEPT !.tunnels = SetStatus(@, pos, "Starting"),
                              !.pc = "start", !.pos = pos]
       \/ /\ ui.tunnels[pos].Status = "Active"
          /\ ui' = [ui EXCEPT !.pc = "stop", !.pos = pos]
    /\ UNCHANGED <<tunnels, tp, proc, task, caller, nextH, nlines, panicked, scope, ops, cvars>>

\* Mutant of UiStartReturn: a successful start shows the tunnel as Active.
UiStartReturnActive ==
    LET id == ui.tunnels[ui.pos].ID
        h == caller[1].ret IN
    /\ Live
    /\ ui.pc = "start"
    /\ caller[1].pc = "done"
    /\ ui' = IF caller[1].res = "ok"
             THEN [ui EXCEPT !.tunnels = SetStatus(@, ui.pos, "Active"),
                             !.channels = MapStore(@, id, h),
                             !.lis[h] = [NoListener EXCEPT !.pc = "select", !.id = id, !.h = h],
                             !.owner[h] = id,
                             !.pc = "idle", !.pos = 0]
             ELSE [ui EXCEPT !.tunnels = SetStatus(@, ui.pos, ErrStatus(caller[1].res)),
                             !.pc = "idle", !.pos = 0]
    /\ caller' = [caller EXCEPT ![1] = IdleCaller]
    /\ UNCHANGED <<tunnels, tp, proc, task, nextH, nlines, panicked, scope, ops, cvars>>

\* StartTunnel has returned: on an error the status shows it; otherwise the
\* channels are stored under the tunnel's ID and a listen command is started.
UiStartReturn ==
    LET id == ui.tunnels[ui.pos].ID
        h == caller[1].ret IN
    /\ Live
    /\ ui.pc = "start"
    /\ caller[1].pc = "done"
    /\ ui' = IF caller[1].res = "ok"
             THEN [ui EXCEPT !.channels = MapStore(@, id, h),
                             !.lis[h] = [NoListener EXCEPT !.pc = "select", !.id = id, !.h = h],
                             !.owner[h] = id,
                             !.pc = "idle", !.pos = 0]
             ELSE [ui EXCEPT !.tunnels = SetStatus(@, ui.pos, ErrStatus(caller[1].res)),
                             !.pc = "idle", !.pos = 0]
    /\ caller' = [caller EXCEPT ![1] = IdleCaller]
    /\ UNCHANGED <<tunnels, tp, proc, task, nextH, nlines, panicked, scope, ops, cvars>>

\* StopTunnel has returned: Inactive, or the error; the channels stored for
\* the tunnel's ID are dropped.
UiStopReturn ==
    LET id == ui.tunnels[ui.pos].ID IN
    /\ Live
    /\ ui.pc = "stop"
    /\ caller[1].pc = "done"
    /\ ui' = [ui EXCEPT !.tunnels = SetStatus(@, ui.pos,
                                              IF caller[1].res = "ok" THEN "Inactive"
                                              ELSE ErrStatus(caller[1].res)),
                        !.channels = MapDelete(@, id),
                        !.pc = "idle", !.pos = 0]
    /\ caller' = [caller EXCEPT ![1] = IdleCaller]
    /\ UNCHANGED <<tunnels, tp, proc, task, nextH, nlines, panicked, scope, ops, cvars>>

\* The deletion of the tunnel at pos is confirmed: a tunnel shown as Active,
\* Connecting... or Starting has StopTunnel(deleteTargetIdx) called first;
\* any other is removed at once.
UiDelete(pos) ==
    /\ Live
    /\ scope.delete
    /\ ui.pc = "idle"
    /\ pos \in DOMAIN ui.tunnels
    /\ ui' = IF ui.tunnels[pos].Status \in {"Active", "Connecting...", "Starting"}
             THEN [ui EXCEPT !.pc = "delete_stop", !.pos = pos]
             ELSE [ui EXCEPT !.channels = MapDelete(@, ui.tunnels[pos].ID),
                             !.tunnels = RemoveAt(@, pos)]
    /\ UNCHANGED <<tunnels, tp, proc, task, caller, nextH, nlines, panicked, scope, ops, cvars>>

\* StopTunnel has returned in the deletion: the channels of the ID are dropped
\* and the tunnel leaves the list, so the tunnels after it move up.
UiDeleteReturn ==
    /\ Live
    /\ ui.pc = "delete_stop"
    /\ caller[1].pc = "done"
    /\ ui' = [ui EXCEPT !.channels = MapDelete(@, ui.tunnels[ui.pos].ID),
                        !.tunnels = RemoveAt(@, ui.pos),
                        !.pc = "idle", !.pos = 0]
    /\ caller' = [caller EXCEPT ![1] = IdleCaller]
    /\ UNCHANGED <<tunnels, tp, proc, task, nextH, nlines, panicked, scope, ops, cvars>>

\* listenForTunnelUpdates: a select over the two channels takes any case that
\* is ready: an event, or the closure of a channel, on which the command
\* returns nil and the listening ends.
UiListen(k) ==
    LET h == ui.lis[k].h IN
    /\ Live
    /\ ui.lis[k].pc = "select"
    /\ \/ /\ Len(tp[h].StatusCh) > 0
          /\ tp' = [tp EXCEPT ![h].StatusCh = Tail(@)]
          /\ ui' = [ui EXCEPT !.lis[k].pc = "deliver", !.lis[k].isError = FALSE,
                              !.lis[k].status = Head(tp[h].StatusCh)]
       \/ /\ Len(tp[h].StatusCh) = 0 /\ tp[h].statusClosed
          /\ ui' = [ui EXCEPT !.lis[k] = NoListener]
          /\ UNCHANGED tp
       \/ /\ Len(tp[h].ErrorCh) > 0
          /\ tp' = [tp EXCEPT ![h].ErrorCh = Tail(@)]
          /\ ui' = [ui EXCEPT !.lis[k].pc = "deliver", !.lis[k].isError = TRUE]
       \/ /\ Len(tp[h].ErrorCh) = 0 /\ tp[h].errorClosed
          /\ ui' = [ui EXCEPT !.lis[k] = NoListener]
          /\ UNCHANGED tp
    /\ UNCHANGED <<tunnels, proc, task, caller, nextH, nlines, panicked, scope, ops, cvars>>

\* Update(TunnelStatusMsg): the tunnel with the ID gets the status of the
\* message, and the listening goes on when channels are stored for the ID.
UiStatusMsg(k) ==
    LET id == ui.lis[k].id IN
    /\ Live
    /\ ui.pc = "idle"
    /\ ui.lis[k].pc = "deliver" /\ ~ui.lis[k].isError
    /\ ui' = IF PosOf(id) # {}
             THEN [ui EXCEPT !.tunnels = SetStatus(@, CHOOSE i \in PosOf(id) : TRUE, ui.lis[k].status),
                             !.lis[k] = Relisten(id)]
             ELSE [ui EXCEPT !.lis[k] = NoListener]
    /\ UNCHANGED <<tunnels, tp, proc, task, caller, nextH, nlines, panicked, scope, ops, cvars>>

\* Update(TunnelErrorMsg): the tunnel with the ID becomes Error and the
\* listening goes on, when channels are stored for the ID.
UiErrorMsg(k) ==
    LET id == ui.lis[k].id IN
    /\ Live
    /\ ui.pc = "idle"
    /\ ui.lis[k].pc = "deliver" /\ ui.lis[k].isError
    /\ ui' = IF PosOf(id) # {} /\ id \in DOMAIN ui.channels
             THEN [ui EXCEPT !.tunnels = SetStatus(@, CHOOSE i \in PosOf(id) : TRUE, "Error"),
                             !.lis[k] = Relisten(id)]
             ELSE [ui EXCEPT !.lis[k] = NoListener]
    /\ UNCHANGED <<tunnels, tp, proc, task, caller, nextH, nlines, panicked, scope, ops, cvars>>

\* The user works with the list.  Three kinds of run: up to MaxTunnels silent
\* tunnels that can be deleted, with one subprocess; one tunnel whose
\* subprocess writes ScriptLen lines and may exit by itself; one tunnel that is
\* stopped and started again, each subprocess writing up to MaxLines lines and
\* running until it is stopped.
UiScope(n, handles, lines, exits) ==
    [callers |-> {1}, handles |-> handles, lines |-> lines,
     listener |-> FALSE, windows |-> FALSE, tunnels |-> n, delete |-> (n > 1),
     exits |-> exits]
UiScopes ==
    {UiScope(MaxTunnels, 1, 0, TRUE), UiScope(1, 1, ScriptLen, TRUE),
     UiScope(1, MaxHandles, MaxLines, FALSE)}

NextUi ==
    \/ UiCreate
    \/ \E pos \in 1..MaxTunnels : UiEnter(pos)
    \/ ui.pc = "start" /\ StartCheck(1, ui.pos)
    \/ \E c \in Callers : StartSpawn(c)
    \/ \E c \in Callers : StartStore(c)
    \/ \E c \in Callers : StartSend(c)
    \/ UiStartReturn
    \/ ui.pc \in {"stop", "delete_stop"} /\ StopCheck(1, ui.pos)
    \/ \E c \in Callers : StopKill(c)
    \/ \E c \in Callers : StopDelete(c)
    \/ UiStopReturn
    \/ \E pos \in 1..MaxTunnels : UiDelete(pos)
    \/ UiDeleteReturn
    \/ \E k \in Handles : UiListen(k)
    \/ \E k \in Handles : UiStatusMsg(k)
    \/ \E k \in Handles : UiErrorMsg(k)
    \/ scope.exits /\ \E h \in Handles, err \in {NilErr, ExitErr} : ProcExit(h, err)
    \/ \E h \in Handles, line \in Lines : OutRead(h, line)
    \/ \E h \in Handles : OutSend(h)
    \/ \E h \in Handles, line \in Lines : ErrRead(h, line)
    \/ \E h \in Handles : ErrSendStatus(h)
    \/ \E h \in Handles : ErrSendError(h)
    \/ \E h \in Handles : WaitReturn(h)
    \/ \E h \in Handles : WaitSend(h)
    \/ \E h \in Handles : WaitDelete(h)
    \/ \E h \in Handles : WaitCloseStatus(h)
    \/ \E h \in Handles : WaitCloseError(h)
    \/ \E h \in Handles : Collect(h)

InitUi ==
    /\ NewTunnelManager
    /\ scope \in UiScopes
    /\ NewCertificateManager
    /\ disk = [id \in CertIds |-> NoFile]

SpecUi == InitUi /\ [][NextUi]_vars

\* The goroutines of the supervisor, the listen commands and the event loop
\* (the handler of a key press that is inside a call, and the handling of the
\* messages of the listen commands) are scheduled fairly; the subprocesses and
\* the user's key presses are not.
UiCallStep ==
    \/ ui.pc = "start" /\ StartCheck(1, ui.pos)
    \/ StartSpawn(1) \/ StartStore(1) \/ StartSend(1) \/ UiStartReturn
    \/ ui.pc \in {"stop", "delete_stop"} /\ StopCheck(1, ui.pos)
    \/ StopKill(1) \/ StopDelete(1) \/ UiStopReturn \/ UiDeleteReturn

UiFairness ==
    /\ \A h \in Handles : WF_vars(WaitStep(h)) /\ WF_vars(ReaderStep(h)) /\ WF_vars(Collect(h))
    /\ \A k \in Handles : WF_vars(UiListen(k)) /\ WF_vars(UiStatusMsg(k) \/ UiErrorMsg(k))
    /\ WF_vars(UiCallStep)

FairUi == SpecUi /\ UiFairness

\* ---------------------------------------------- certificate manager: steps
\* time.Until(t)
Until(t) == t - now

\* Mutant of GetRenewalStatus: the renewal window excludes its upper end.
GetRenewalStatusOpenWindow(expiresAt) ==
    IF Until(expiresAt) <= 0 THEN "expired"
    ELSE IF Until(expiresAt) < RenewalWindow THEN "expiring_soon"
         ELSE "valid"

\* getRenewalStatus
GetRenewalStatus(expiresAt) ==
    IF Until(expiresAt) <= 0 THEN "expired"
    ELSE IF Until(expiresAt) <= RenewalWindow THEN "expiring_soon"
         ELSE "valid"

CertEvent(vm, status, message, expiresIn) ==
    [VMName |-> vm, Status |-> status, Message |-> message, ExpiresIn |-> expiresIn]

\* Mutant of Publish: the event is queued whatever the queue holds.
PublishAppend(q, ev) == Append(q, ev)

\* select { case cm.statusCh <- ev: default: }
Publish(q, ev) == IF Len(q) < CertQueueCap THEN Append(q, ev) ELSE q

\* The certificate file RegisterCertificate finds: none, or one whose expiry
\* (parsed from ssh-keygen -L, or mtime + 1h) lies inside the renewal window
\* by the first tick, or a fresh one.
CertFile(expiresAt) == [exists |-> TRUE, expiresAt |-> expiresAt]
CertFiles == {NoFile} \cup {CertFile(4 * CheckInterval), CertFile(CertLifetime)}

\* RegisterCertificate, all of it under cm.mu.
RegisterCertificate(id) ==
    LET file == disk[id] IN
    /\ nextRec <= MaxRecs
    /\ certs' = MapStore(certs, id, nextRec)
    /\ nextRec' = nextRec + 1
    /\ IF file.exists
       THEN /\ recs' = [recs EXCEPT ![nextRec] =
                          [VMName |-> id, ExpiresAt |-> file.expiresAt,
                           LastRenewalTry |-> ZeroTime,
                           RenewalStatus |-> GetRenewalStatus(file.expiresAt)]]
            /\ statusCh' = Publish(statusCh,
                                   CertEvent(id, GetRenewalStatus(file.expiresAt),
                                             <<"Certificate tracked: expires at ", file.expiresAt>>,
                                             Until(file.expiresAt)))
       ELSE /\ recs' = [recs EXCEPT ![nextRec] =
                          [VMName |-> id, ExpiresAt |-> now,
                           LastRenewalTry |-> ZeroTime, RenewalStatus |-> "expired"]]
            /\ UNCHANGED statusCh
    /\ UNCHANGED <<now, ctxDone, loop, nextTick, att, starts, tvars, api, disk>>

\* Mutant of NextTickAfter: the ticker fires every clock step.
NextTickEveryStep(t) == t + TimeStep

\* time.NewTicker(CheckInterval)
NextTickAfter(t) == t + CheckInterval

\* StartMonitoring: go cm.monitorLoop(); the loop makes its ticker and waits in
\* the select (a cancelled context makes it return at once).
StartMonitoring ==
    /\ loop.pc = "off"
    /\ loop' = [loop EXCEPT !.pc = IF ctxDone THEN "stopped" ELSE "select"]
    /\ nextTick' = NextTickAfter(now)
    /\ UNCHANGED <<now, certs, recs, nextRec, statusCh, ctxDone, att, starts, tvars, api, disk>>

\* The orders in which a range over a map can give its values.
Orders(S) ==
    {o \in [1..Cardinality(S) -> S] : \A i, j \in 1..Cardinality(S) : o[i] = o[j] => i = j}

\* case <-ticker.C: checkAndRenewCertificates copies the records' pointers
\* under cm.mu.RLock and reads the clock.
Tick(order) ==
    /\ loop.pc = "select"
    /\ now >= nextTick
    /\ nextTick' = NextTickAfter(nextTick)
    /\ loop' = [loop EXCEPT !.pc = IF order = <<>> THEN "select" ELSE "read",
                            !.todo = order,
                            !.tickNow = IF order = <<>> THEN 0 ELSE now]
    /\ UNCHANGED <<now, certs, recs, nextRec, statusCh, ctxDone, att, starts, tvars, api, disk>>

\* cert.mu.Lock(); expiresAt, lastTry, status := ...; cert.mu.Unlock()
TickRead ==
    LET r == Head(loop.todo) IN
    /\ loop.pc = "read"
    /\ loop' = [loop EXCEPT !.pc = "write",
                            !.expiresAt = recs[r].ExpiresAt,
                            !.lastTry = recs[r].LastRenewalTry,
                            !.status = recs[r].RenewalStatus]
    /\ UNCHANGED <<now, certs, recs, nextRec, statusCh, ctxDone, nextTick, att, starts, tvars, api, disk>>

\* Mutant of RenewalKind: an expired certificate is left alone.
RenewalKindWindowOnly(timeUntilExpiry, tickNow, lastTry) ==
    IF timeUntilExpiry > 0 /\ timeUntilExpiry <= RenewalWindow
       /\ tickNow - lastTry >= RenewalRetryDelay
    THEN "window"
    ELSE "no"

\* "Check if we should attempt renewal": "expired", "window" or "no".
RenewalKind(timeUntilExpiry, tickNow, lastTry) ==
    IF timeUntilExpiry <= 0 THEN "expired"
    ELSE IF timeUntilExpiry <= RenewalWindow /\ tickNow - lastTry >= RenewalRetryDelay
         THEN "window"
         ELSE "no"

\* The rest of the loop body for one record: the status update with its event,
\* the renewal decision and go cm.renewCertificate(cert); after the last
\* record the loop is back in its select.
TickWrite ==
    LET r == Head(loop.todo)
        rest == Tail(loop.todo)
        newStatus == GetRenewalStatus(loop.expiresAt)
        kind == RenewalKind(Until(loop.expiresAt), loop.tickNow, loop.lastTry)
        free == {a \in Attempts : att[a].pc = "free"}
        a == CHOOSE x \in free : \A y \in free : x <= y
    IN
    /\ loop.pc = "write"
    /\ kind # "no" => free # {}
    /\ IF newStatus # loop.status
       THEN /\ recs' = [recs EXCEPT ![r].RenewalStatus = newStatus]
            /\ statusCh' = Publish(statusCh,
                                   CertEvent(recs[r].VMName, newStatus,
                                             <<"Certificate status changed to: ", newStatus>>,
                                             Until(loop.expiresAt)))
       ELSE UNCHANGED <<recs, statusCh>>
    /\ att' = IF kind # "no"
              THEN [att EXCEPT ![a] = [NoAttempt EXCEPT !.pc = "begin", !.rec = r, !.kind = kind]]
              ELSE att
    /\ loop' = IF rest = <<>>
               THEN [IdleLoop EXCEPT !.pc = IF ctxDone THEN "stopped" ELSE "select"]
               ELSE [IdleLoop EXCEPT !.pc = "read", !.todo = rest, !.tickNow = loop.tickNow]
    /\ UNCHANGED <<now, certs, nextRec, ctxDone, nextTick, starts, tvars, api, disk>>

\* Mutant of RenewBegin: the time of the try is stored, the state is not.
RenewBeginUnmarked(a) ==
    LET r == att[a].rec IN
    /\ att[a].pc = "begin"
    /\ recs' = [recs EXCEPT ![r].LastRenewalTry = now]
    /\ att' = [att EXCEPT ![a].pc = "notify", ![a].was = recs[r].ExpiresAt]
    /\ starts' = [starts EXCEPT ![recs[r].VMName] =
                     Append(@, [at |-> now, kind |-> att[a].kind])]
    /\ UNCHANGED <<now, certs, nextRec, statusCh, ctxDone, loop, nextTick, tvars, api, disk>>

\* renewCertificate: cert.LastRenewalTry = time.Now(); cert.RenewalStatus = "renewing"
RenewBegin(a) ==
    LET r == att[a].rec IN
    /\ att[a].pc = "begin"
    /\ recs' = [recs EXCEPT ![r].LastRenewalTry = now, ![r].RenewalStatus = "renewing"]
    /\ att' = [att EXCEPT ![a].pc = "notify", ![a].was = recs[r].ExpiresAt]
    /\ starts' = [starts EXCEPT ![recs[r].VMName] =
                     Append(@, [at |-> now, kind |-> att[a].kind])]
    /\ UNCHANGED <<now, certs, nextRec, statusCh, ctxDone, loop, nextTick, tvars, api, disk>>

\* Mutant of RenewNotify: a plain send, which waits for room in the queue.
RenewNotifyBlocking(a) ==
    /\ att[a].pc = "notify"
    /\ Len(statusCh) < CertQueueCap
    /\ statusCh' = Append(statusCh, CertEvent(recs[att[a].rec].VMName, "renewing",
                                             <<"Attempting to renew certificate...">>, 0))
    /\ att' = [att EXCEPT ![a].pc = "exec"]
    /\ UNCHANGED <<now, certs, recs, nextRec, ctxDone, loop, nextTick, starts, tvars, api, disk>>

\* "Notify that renewal is starting", then the command is invoked.
RenewNotify(a) ==
    /\ att[a].pc = "notify"
    /\ statusCh' = Publish(statusCh, CertEvent(recs[att[a].rec].VMName, "renewing",
                                              <<"Attempting to renew certificate...">>, 0))
    /\ att' = [att EXCEPT ![a].pc = "exec"]
    /\ UNCHANGED <<now, certs, recs, nextRec, ctxDone, loop, nextTick, starts, tvars, api, disk>>

\* Mutant of CommandErrors: exec.Command, which does not follow the context.
CommandErrorsNoContext == {"nil", "exit status 1"}

\* The err of exec.CommandContext(cm.ctx, "az", ...).CombinedOutput(): the
\* command ends by itself with or without an error, while a cancelled cm.ctx
\* kills it (or keeps it from starting).
CommandErrors ==
    IF ctxDone THEN {"context canceled"} ELSE {"nil", "exit status 1"}

\* The expiry of a certificate issued at time t (parsed from the output, or
\* time.Now().Add(CertLifetime)).
IssuedExpiry(t) == t + CertLifetime

\* What a command has written when it ends: nothing, or some text.
Outputs == {"", "ERROR: Please run 'az login' to setup account."}

\* cmd.CombinedOutput() returns the captured output and the err.
CmdExit(a, err, output) ==
    /\ att[a].pc = "exec"
    /\ err \in CommandErrors
    /\ att' = [att EXCEPT ![a].pc = IF err = "nil" THEN "ok" ELSE "failed",
                          ![a].out = err, ![a].output = output]
    /\ disk' = IF err = "nil"
               THEN [disk EXCEPT ![recs[att[a].rec].VMName] = CertFile(IssuedExpiry(now))]
               ELSE disk
    /\ UNCHANGED <<now, certs, recs, nextRec, statusCh, ctxDone, loop, nextTick, starts, tvars, api>>

\* Mutant of ErrMsg: the message is the error's text alone.
ErrMsgErrorOnly(output, err) == err

\* errMsg := string(output); if errMsg == "" { errMsg = err.Error() }
ErrMsg(output, err) == IF output = "" THEN err ELSE output

\* if err != nil: cert.RenewalStatus = "renewal_failed", the event, return.
RenewFail(a) ==
    LET r == att[a].rec IN
    /\ att[a].pc = "failed"
    /\ recs' = [recs EXCEPT ![r].RenewalStatus = "renewal_failed"]
    /\ statusCh' = Publish(statusCh,
                           CertEvent(recs[r].VMName, "renewal_failed",
                                     <<"Certificate renewal failed: ",
                                       ErrMsg(att[a].output, att[a].out)>>, 0))
    /\ att' = [att EXCEPT ![a] = NoAttempt]
    /\ UNCHANGED <<now, certs, nextRec, ctxDone, loop, nextTick, starts, tvars, api, disk>>

\* The success path: cert.ExpiresAt = expiresAt; cert.RenewalStatus = "valid";
\* the "renewed" event.
RenewSucceed(a) ==
    LET r == att[a].rec IN
    /\ att[a].pc = "ok"
    /\ recs' = [recs EXCEPT ![r].ExpiresAt = IssuedExpiry(now), ![r].RenewalStatus = "valid"]
    /\ statusCh' = Publish(statusCh,
                           CertEvent(recs[r].VMName, "renewed",
                                     <<"Certificate renewed successfully! Expires at: ",
                                       IssuedExpiry(now)>>,
                                     Until(IssuedExpiry(now))))
    /\ att' = [att EXCEPT ![a] = NoAttempt]
    /\ UNCHANGED <<now, certs, nextRec, ctxDone, loop, nextTick, starts, tvars, api, disk>>

\* Stop: cm.cancel().  A monitorLoop waiting in its select takes the Done case.
Stop ==
    /\ ~ctxDone
    /\ ctxDone' = TRUE
    /\ loop' = [loop EXCEPT !.pc = IF @ = "select" THEN "stopped" ELSE @]
    /\ UNCHANGED <<now, certs, recs, nextRec, statusCh, nextTick, att, starts, tvars, api, disk>>

\* A listener takes the oldest event of cm.statusCh.
RecvCert ==
    /\ Len(statusCh) > 0
    /\ statusCh' = Tail(statusCh)
    /\ UNCHANGED <<now, certs, recs, nextRec, ctxDone, loop, nextTick, att, starts, tvars, api, disk>>

\* Every goroutine of the manager waits: the loop for its ticker, the renewals
\* for their commands (a cancelled context has killed the commands).
Waiting ==
    /\ loop.pc \in {"off", "select", "stopped"}
    /\ loop.pc = "select" => now < nextTick
    /\ \A a \in Attempts : att[a].pc \in {"free", "exec"}
    /\ ctxDone => \A a \in Attempts : att[a].pc = "free"
    /\ api.pc \in {"idle", "done"} \/ (api.pc = "gen_exec" /\ ~ctxDone)

\* Time passes.
AdvanceTime ==
    /\ Waiting
    /\ now + TimeStep <= MaxTime
    /\ now' = now + TimeStep
    /\ UNCHANGED <<certs, recs, nextRec, statusCh, ctxDone, loop, nextTick, att, starts, tvars, api, disk>>

NextCert ==
    \/ \E id \in scope.ids : RegisterCertificate(id)
    \/ StartMonitoring
    \/ \E order \in Orders({certs[id] : id \in DOMAIN certs}) : Tick(order)
    \/ TickRead
    \/ TickWrite
    \/ \E a \in Attempts : RenewBegin(a)
    \/ \E a \in Attempts : RenewNotify(a)
    \/ \E a \in Attempts, err \in {"nil", "exit status 1", "context canceled"},
          output \in Outputs : CmdExit(a, err, output)
    \/ \E a \in Attempts : RenewFail(a)
    \/ \E a \in Attempts : RenewSucceed(a)
    \/ Stop
    \/ RecvCert
    \/ AdvanceTime

\* The goroutines of the manager are scheduled fairly and time passes; the
\* issuance commands, the callers and the listener are not bound to act.
RenewStep(a) == RenewBegin(a) \/ RenewNotify(a) \/ RenewFail(a) \/ RenewSucceed(a)
LoopStep ==
    \/ \E order \in Orders({certs[id] : id \in DOMAIN certs}) : Tick(order)
    \/ TickRead
    \/ TickWrite

CertFairness ==
    /\ WF_vars(AdvanceTime)
    /\ WF_vars(LoopStep)
    /\ \A a \in Attempts : WF_vars(RenewStep(a))

\* The certificate manager runs; the supervisor stays as constructed.
InitCert ==
    /\ NewTunnelManager
    /\ scope = ConcurrentScope
    /\ NewCertificateManager
    /\ disk \in [CertIds -> CertFiles]
    /\ \A id \in CertIds \ scope.ids : disk[id] = NoFile

SpecCert == InitCert /\ [][NextCert]_vars

FairCert == SpecCert /\ CertFairness

\* ------------------------------------------------ classification of expiries
\* Certificate files whose expiry lies within MaxSkew seconds of the start of
\* the run or of the renewal window's upper end.
NearThresholds ==
    {CertFile(t) : t \in ((0 - MaxSkew)..MaxSkew)
                         \cup ((RenewalWindow - MaxSkew)..(RenewalWindow + MaxSkew))}

\* One second passes while the monitor loop is off.
Elapse ==
    /\ loop = IdleLoop
    /\ now < MaxSkew
    /\ now' = now + 1
    /\ UNCHANGED <<certs, recs, nextRec, statusCh, ctxDone, loop, nextTick, att, starts, tvars, api, disk>>

NextClassify ==
    \/ \E id \in scope.ids : RegisterCertificate(id)
    \/ Elapse

InitClassify ==
    /\ NewTunnelManager
    /\ scope = ConcurrentScope
    /\ NewCertificateManager
    /\ disk \in [CertIds -> NearThresholds \cup {NoFile}]
    /\ \A id \in CertIds : id \in scope.ids <=> disk[id] # NoFile

SpecClassify == InitClassify /\ [][NextClassify]_vars

\* ------------------------------------------------ certificate manager: API
SetApi(pc, op, id, err, status, remaining) ==
    api' = [pc |-> pc, op |-> op, id |-> id, err |-> err,
            status |-> status, remaining |-> remaining]

\* Mutant of GetStatus: an unknown identity gives an empty answer and no error.
GetStatusLenient(id) ==
    /\ api.pc = "idle"
    /\ IF id \in DOMAIN certs
       THEN SetApi("done", "GetStatus", id, "nil",
                   recs[certs[id]].RenewalStatus, Until(recs[certs[id]].ExpiresAt))
       ELSE SetApi("done", "GetStatus", id, "nil", "", 0)
    /\ UNCHANGED <<now, certs, recs, nextRec, statusCh, ctxDone, loop, nextTick, att, starts, tvars, disk>>

\* GetStatus: the map lookup under cm.mu.RLock, the fields under cert.mu.RLock.
GetStatus(id) ==
    /\ api.pc = "idle"
    /\ IF id \in DOMAIN certs
       THEN SetApi("done", "GetStatus", id, "nil",
                   recs[certs[id]].RenewalStatus, Until(recs[certs[id]].ExpiresAt))
       ELSE SetApi("done", "GetStatus", id, "certificate not registered", "", 0)
    /\ UNCHANGED <<now, certs, recs, nextRec, statusCh, ctxDone, loop, nextTick, att, starts, tvars, disk>>

\* What can go wrong in GenerateCertificate before the issuance command.
GenFailures ==
    {"failed to get home directory", "failed to create SSH config directory",
     "failed to generate SSH key"}

\* GenerateCertificate up to "Generate the Azure AD certificate": os.MkdirAll
\* or ssh-keygen fails and the error is returned, or the command is invoked.
GenStart(id, err) ==
    /\ api.pc = "idle"
    /\ IF err = "nil"
       THEN SetApi("gen_exec", "GenerateCertificate", id, "none", "", 0)
       ELSE SetApi("done", "GenerateCertificate", id, err, "", 0)
    /\ UNCHANGED <<now, certs, recs, nextRec, statusCh, ctxDone, loop, nextTick, att, starts, tvars, disk>>

\* Mutant of GenCmdExit: a failed command takes the identity out of the map.
GenCmdExitUnregisters(err) ==
    /\ api.pc = "gen_exec"
    /\ err \in CommandErrors
    /\ IF err = "nil"
       THEN SetApi("gen_store", "GenerateCertificate", api.id, "none", "", 0)
       ELSE SetApi("done", "GenerateCertificate", api.id, "failed to generate certificate", "", 0)
    /\ certs' = IF err = "nil" THEN certs ELSE MapDelete(certs, api.id)
    /\ disk' = IF err = "nil" THEN [disk EXCEPT ![api.id] = CertFile(IssuedExpiry(now))] ELSE disk
    /\ UNCHANGED <<now, recs, nextRec, statusCh, ctxDone, loop, nextTick, att, starts, tvars>>

\* output, err := cmd.CombinedOutput(); if err != nil return the error.
GenCmdExit(err) ==
    /\ api.pc = "gen_exec"
    /\ err \in CommandErrors
    /\ IF err = "nil"
       THEN SetApi("gen_store", "GenerateCertificate", api.id, "none", "", 0)
       ELSE SetApi("done", "GenerateCertificate", api.id, "failed to generate certificate", "", 0)
    /\ disk' = IF err = "nil" THEN [disk EXCEPT ![api.id] = CertFile(IssuedExpiry(now))] ELSE disk
    /\ UNCHANGED <<now, certs, recs, nextRec, statusCh, ctxDone, loop, nextTick, att, starts, tvars>>

\* Mutant of NewValidRec: the new record is stored as expired.
NewExpiredRec(id, expiresAt) ==
    [VMName |-> id, ExpiresAt |-> expiresAt, LastRenewalTry |-> ZeroTime,
     RenewalStatus |-> "expired"]

\* &CertInfo{..., ExpiresAt: expiresAt, RenewalStatus: "valid"}
NewValidRec(id, expiresAt) ==
    [VMName |-> id, ExpiresAt |-> expiresAt, LastRenewalTry |-> ZeroTime,
     RenewalStatus |-> "valid"]

\* "Register the certificate for monitoring with the actual expiry time" under
\* cm.mu, the "valid" event, return nil.
GenStore ==
    /\ api.pc = "gen_store"
    /\ nextRec <= MaxRecs
    /\ recs' = [recs EXCEPT ![nextRec] = NewValidRec(api.id, IssuedExpiry(now))]
    /\ certs' = MapStore(certs, api.id, nextRec)
    /\ nextRec' = nextRec + 1
    /\ statusCh' = Publish(statusCh,
                           CertEvent(api.id, "valid",
                                     <<"Certificate generated! Expires at: ", IssuedExpiry(now)>>,
                                     Until(IssuedExpiry(now))))
    /\ SetApi("done", "GenerateCertificate", api.id, "nil", "", 0)
    /\ UNCHANGED <<now, ctxDone, loop, nextTick, att, starts, tvars, disk>>

\* The caller has the result and is free to call again.
ApiReturn ==
    /\ api.pc = "done"
    /\ api' = IdleApi
    /\ UNCHANGED <<now, certs, recs, nextRec, statusCh, ctxDone, loop, nextTick, att, starts, tvars, disk>>

\* The events of a manager that has been up, its listener not reading: status
\* changes of identity 1.
PastCertEvents(n) ==
    [i \in 1..n |-> CertEvent(1, IF i % 2 = 1 THEN "expiring_soon" ELSE "valid",
                              <<"Certificate status changed to: ",
                                IF i % 2 = 1 THEN "expiring_soon" ELSE "valid">>,
                              IF i % 2 = 1 THEN RenewalWindow ELSE CertLifetime)]

\* A manager whose event queue is full, or one short of it.
BusyCertificateManager ==
    /\ now = 0
    /\ certs = <<>>
    /\ recs = [r \in Recs |-> NoRec]
    /\ nextRec = 1
    /\ statusCh \in {PastCertEvents(CertQueueCap - 1), PastCertEvents(CertQueueCap)}
    /\ ctxDone = FALSE
    /\ loop = IdleLoop
    /\ nextTick = 0
    /\ att = [a \in Attempts |-> NoAttempt]
    /\ starts = [id \in CertIds |-> <<>>]
    /\ api = IdleApi

\* The environment of one run of the manager with no listener on its event
\* queue: the monitor loop is started and nobody calls GetStatus or
\* GenerateCertificate, or these are called and the monitor loop is not started.
MonitorScope ==
    [callers |-> {}, handles |-> 0, lines |-> 0, listener |-> FALSE, windows |-> FALSE,
     monitor |-> TRUE, api |-> FALSE, ids |-> {1}]
ApiScope ==
    [callers |-> {}, handles |-> 0, lines |-> 0, listener |-> FALSE, windows |-> FALSE,
     monitor |-> FALSE, api |-> TRUE, ids |-> {1}]

NextCertApi ==
    \/ \E id \in scope.ids : RegisterCertificate(id)
    \/ scope.monitor /\ StartMonitoring
    \/ \E order \in Orders({certs[id] : id \in DOMAIN certs}) : Tick(order)
    \/ TickRead
    \/ TickWrite
    \/ \E a \in Attempts : RenewBegin(a)
    \/ \E a \in Attempts : RenewNotify(a)
    \/ \E a \in Attempts, err \in {"nil", "exit status 1", "context canceled"},
          output \in Outputs : CmdExit(a, err, output)
    \/ \E a \in Attempts : RenewFail(a)
    \/ \E a \in Attempts : RenewSucceed(a)
    \/ Stop
    \/ AdvanceTime
    \/ scope.api /\ \E id \in scope.ids : GetStatus(id)
    \/ scope.api /\ \E id \in scope.ids, err \in GenFailures \cup {"nil"} : GenStart(id, err)
    \/ \E err \in {"nil", "exit status 1", "context canceled"} : GenCmdExit(err)
    \/ GenStore
    \/ ApiReturn

InitCertApi ==
    /\ NewTunnelManager
    /\ scope \in {MonitorScope, ApiScope}
    /\ NewCertificateManager \/ BusyCertificateManager
    /\ disk \in [CertIds -> CertFiles]
    /\ \A id \in CertIds \ scope.ids : disk[id] = NoFile

SpecCertApi == InitCertApi /\ [][NextCertApi]_vars

\* ------------------------------------------- several identities, no listener
\* The monitor loop watches every identity and GenerateCertificate is called;
\* the issuance command hangs for identity 1; the manager is not stopped and
\* nobody receives.
HungScope == [MonitorScope EXCEPT !.ids = CertIds \ {1}, !.api = TRUE]

\* Identity 1 was registered with no certificate file when the manager was
\* made; the event queue is empty or holds the events of earlier runs.
HungRegistered ==
    /\ now = 0
    /\ certs = [id \in {1} |-> 1]
    /\ recs = [r \in Recs |->
                 IF r = 1
                 THEN [VMName |-> 1, ExpiresAt |-> 0,
                       LastRenewalTry |-> ZeroTime, RenewalStatus |-> "expired"]
                 ELSE NoRec]
    /\ nextRec = 2
    /\ statusCh \in {<<>>, PastCertEvents(CertQueueCap - 1), PastCertEvents(CertQueueCap)}
    /\ ctxDone = FALSE
    /\ loop = IdleLoop
    /\ nextTick = 0
    /\ att = [a \in Attempts |-> NoAttempt]
    /\ starts = [id \in CertIds |-> <<>>]
    /\ api = IdleApi

\* The issuance command of an attempt ends, unless it is for identity 1.
HungExit(a, err, output) ==
    /\ att[a].pc = "exec"
    /\ recs[att[a].rec].VMName # 1
    /\ CmdExit(a, err, output)

NextHung ==
    \/ \E id \in scope.ids : RegisterCertificate(id)
    \/ StartMonitoring
    \/ \E order \in Orders({certs[id] : id \in DOMAIN certs}) : Tick(order)
    \/ TickRead
    \/ TickWrite
    \/ \E a \in Attempts : RenewBegin(a)
    \/ \E a \in Attempts : RenewNotify(a)
    \/ \E a \in Attempts, err \in {"nil", "exit status 1"}, output \in Outputs :
          HungExit(a, err, output)
    \/ \E a \in Attempts : RenewFail(a)
    \/ \E a \in Attempts : RenewSucceed(a)
    \/ AdvanceTime
    \/ \E id \in scope.ids, err \in GenFailures \cup {"nil"} : GenStart(id, err)
    \/ \E err \in {"nil", "exit status 1"} : GenCmdExit(err)
    \/ GenStore
    \/ ApiReturn

InitHung ==
    /\ NewTunnelManager
    /\ scope = HungScope
    /\ HungRegistered
    /\ disk \in [CertIds -> {NoFile, CertFile(4 * CheckInterval)}]
    /\ disk[1] = NoFile

SpecHung == InitHung /\ [][NextHung]_vars

\* ------------------------------------------------------------------ claims
StartedFor(id) == {h \in Handles : tp[h].index = id}

\* C1: at most one subprocess started for a tunnel id is alive at any instant.
C1_AtMostOneAlive ==
    \A id \in TunnelIds :
        Cardinality({h \in StartedFor(id) : proc[h].state = "running"}) <= 1

\* C2: a StartTunnel(id) issued while id is in the active set returns
\* "tunnel already running" and no queues, spawns nothing, and leaves the
\* active set and every handle (queues, log) as they were.
C2_SecondStartRejected ==
    [][\A c \in Callers, id \in TunnelIds :
          (/\ caller[c].pc = "idle"
           /\ caller'[c].pc # "idle"
           /\ caller'[c].op = "StartTunnel"
           /\ caller'[c].id = id
           /\ id \in DOMAIN tunnels)
          => /\ caller'[c].pc = "done"
             /\ caller'[c].res = "tunnel already running"
             /\ caller'[c].ret = NoHandle
             /\ UNCHANGED <<tunnels, tp, proc, task, nextH>>]_vars

C2_Witness ==
    \E c \in Callers :
        /\ caller[c].pc = "done"
        /\ caller[c].op = "StartTunnel"
        /\ caller[c].res = "tunnel already running"
        /\ caller[c].id \in DOMAIN tunnels

\* C3: once a tunnel's subprocess has exited, both its queues are eventually
\* closed and its handle is eventually out of the active set.
Finalized(h) ==
    /\ tp[h].statusClosed
    /\ tp[h].errorClosed
    /\ \A i \in DOMAIN tunnels : tunnels[i] # h

C3_ExitLeadsToClosure ==
    \A h \in Handles : (proc[h].state = "exited") ~> Finalized(h)

\* C4: no supervisor task is ever blocked on publishing an event.
BlockedOn(q, closed) == ~closed /\ ~CanSend(q)

C4_NoPublisherBlocks ==
    \A h \in Handles :
        /\ task[h].out = "send" => ~BlockedOn(tp[h].StatusCh, tp[h].statusClosed)
        /\ task[h].err = "send_status" => ~BlockedOn(tp[h].StatusCh, tp[h].statusClosed)
        /\ task[h].err = "send_error" => ~BlockedOn(tp[h].ErrorCh, tp[h].errorClosed)
        /\ task[h].wait = "send" => ~BlockedOn(tp[h].ErrorCh, tp[h].errorClosed)
        /\ \A c \in Callers :
              (caller[c].pc = "start_send" /\ caller[c].h = h)
                  => ~BlockedOn(tp[h].StatusCh, tp[h].statusClosed)

\* C5: a StopTunnel(id) that finds id in the active set returns no error, and
\* when it returns id is out of the active set and the handle's token is
\* cancelled, also when killing the subprocess failed.
C5_StopRemoves ==
    [][\A c \in Callers :
          /\ (/\ caller[c].pc = "idle"
              /\ caller'[c].pc # "idle"
              /\ caller'[c].op = "StopTunnel"
              /\ caller'[c].id \in DOMAIN tunnels)
             => /\ caller'[c].pc # "done"
                /\ caller'[c].h = tunnels[caller'[c].id]
          /\ (/\ caller[c].op = "StopTunnel"
              /\ caller[c].pc \notin {"idle", "done"}
              /\ caller'[c].pc = "done")
             => /\ caller'[c].res = "ok"
                /\ caller[c].id \notin DOMAIN tunnels'
                /\ tp'[caller[c].h].cancelled]_vars

HasEntry(h, e) == \E i \in DOMAIN tp[h].Logs : tp[h].Logs[i] = e

C5_Witness ==
    \E c \in Callers :
        /\ caller[c].pc = "done"
        /\ caller[c].op = "StopTunnel"
        /\ caller[c].res = "ok"
        /\ HasEntry(caller[c].h, WarnKillEntry)

\* C6: a StopTunnel(id) that does not find id in the active set returns
\* "tunnel not running" and changes neither the active set nor any handle.
C6_StopUnknownFails ==
    [][\A c \in Callers, id \in TunnelIds :
          (/\ caller[c].pc = "idle"
           /\ caller'[c].pc # "idle"
           /\ caller'[c].op = "StopTunnel"
           /\ caller'[c].id = id
           /\ id \notin DOMAIN tunnels)
          => /\ caller'[c].pc = "done"
             /\ caller'[c].res = "tunnel not running"
             /\ UNCHANGED <<tunnels, tp, proc, task, nextH>>]_vars

\* A second StopTunnel right after a successful one has failed.
C6_Witness ==
    \E c1 \in Callers, c2 \in Callers :
        /\ caller[c1].pc = "done" /\ caller[c1].op = "StopTunnel" /\ caller[c1].res = "ok"
        /\ caller[c2].pc = "done" /\ caller[c2].op = "StopTunnel"
        /\ caller[c2].res = "tunnel not running"
        /\ caller[c2].id = caller[c1].id

\* C7: the log buffer of every handle holds at most 100 entries.
C7_LogBounded == \A h \in Handles : Len(tp[h].Logs) <= LogCap

\* C8: a line appended by a reader to a log of 100 entries evicts exactly the
\* oldest entry, keeps the order of the other 99 and is the last entry.
ReaderAppends(h) == nlines'[h] = nlines[h] + 1

C8_EvictsOldest ==
    [][\A h \in Handles :
          (ReaderAppends(h) /\ Len(tp[h].Logs) = LogCap)
          => /\ Len(tp'[h].Logs) = LogCap
             /\ SubSeq(tp'[h].Logs, 1, LogCap - 1) = Tail(tp[h].Logs)
             /\ \E line \in Lines :
                   tp'[h].Logs[LogCap] \in {OutEntry(line), ErrEntry(line)}]_vars

\* A full log whose oldest entry is the second line the tunnel ever wrote.
C8_Witness ==
    \E h \in Handles :
        /\ nlines[h] > 0
        /\ Len(tp[h].Logs) = LogCap
        /\ tp[h].Logs[1] = ErrEntry(ErrorLine)
        /\ tp[h].Logs[LogCap] \in {OutEntry(line) : line \in Lines} \cup {ErrEntry(line) : line \in Lines}

\* C9: for each identity, two consecutive renewal attempts start at least
\* RenewalRetryDelay (30 s) apart, inside the renewal window and after expiry.
C9_AttemptsSpaced ==
    \A id \in CertIds :
        \A k \in 1..(Len(starts[id]) - 1) :
            starts[id][k + 1].at - starts[id][k].at >= RenewalRetryDelay

\* Two attempts for one identity, the second one decided inside the window.
C9_Witness ==
    \E id \in CertIds :
        /\ Len(starts[id]) >= 2
        /\ starts[id][1].kind = "window"
        /\ starts[id][2].kind = "window"

\* A tick begins: the loop leaves its select for checkAndRenewCertificates.
TickBegins == loop.pc = "select" /\ nextTick' # nextTick

\* A renewCertificate goroutine is started.
AttemptStarts == \E a \in Attempts : att[a].pc = "free" /\ att'[a].pc = "begin"

Succeeds(a) == att[a].pc = "ok" /\ att'[a].pc = "free"

\* C11: when a renewal attempt's issuance command has succeeded, the record
\* goes from renewing to valid and its expiry becomes a time strictly after
\* the expiry it had when the attempt began.
C11_SuccessRenewingToValid ==
    [][\A a \in Attempts :
          Succeeds(a)
          => /\ recs[att[a].rec].RenewalStatus = "renewing"
             /\ recs'[att[a].rec].RenewalStatus = "valid"
             /\ recs'[att[a].rec].ExpiresAt > att[a].was]_vars

\* The 'renewed' events a queue holds.
Renewed(q) == {i \in DOMAIN q : q[i].Status = "renewed"}

\* The queue q with one 'renewed' event for the record r of attempt a, carrying
\* the record's new expiry, at its end.
RenewedAdded(q, a) ==
    /\ Len(statusCh') = Len(q) + 1
    /\ SubSeq(statusCh', 1, Len(q)) = q
    /\ statusCh'[Len(q) + 1].Status = "renewed"
    /\ statusCh'[Len(q) + 1].VMName = recs[att[a].rec].VMName
    /\ now + statusCh'[Len(q) + 1].ExpiresIn = recs'[att[a].rec].ExpiresAt
    /\ statusCh'[Len(q) + 1].Message[2] = recs'[att[a].rec].ExpiresAt

\* C12 as stated: each renewal attempt whose command succeeded puts exactly
\* one 'renewed' event, carrying the new expiry, on the queue, and nothing else
\* puts one.
C12_RenewedQueued ==
    [][/\ \A a \in Attempts : Succeeds(a) => RenewedAdded(statusCh, a)
       /\ (\A a \in Attempts : ~Succeeds(a))
          => Cardinality(Renewed(statusCh')) <= Cardinality(Renewed(statusCh))]_vars

\* C12, amended: each renewal attempt whose command succeeded publishes one
\* 'renewed' event carrying the new expiry, which is queued when the queue
\* holds fewer than 10 events and dropped when it holds 10; nothing else puts
\* a 'renewed' event on the queue.
C12_RenewedPublished ==
    [][/\ \A a \in Attempts :
             Succeeds(a)
             => IF Len(statusCh) < CertQueueCap
                THEN RenewedAdded(statusCh, a)
                ELSE statusCh' = statusCh
       /\ (\A a \in Attempts : ~Succeeds(a))
          => Cardinality(Renewed(statusCh')) <= Cardinality(Renewed(statusCh))]_vars

\* A record has been renewed while the queue held 10 events: its event is lost.
C12_Witness ==
    /\ statusCh = PastCertEvents(CertQueueCap)
    /\ \E r \in Recs : recs[r].RenewalStatus = "valid" /\ recs[r].LastRenewalTry # ZeroTime

\* RegisterCertificate(id) is this step.
Registers(id) ==
    /\ nextRec' = nextRec + 1
    /\ api.pc # "gen_store"
    /\ id \in DOMAIN certs'
    /\ certs'[id] = nextRec

\* The tick's decision on record r is this step.
Decides(r) == loop.pc = "write" /\ loop' # loop /\ Head(loop.todo) = r

\* A renewCertificate goroutine for record r is started in this step.
AttemptStartsFor(r) ==
    \E a \in Attempts : att[a].pc = "free" /\ att'[a].pc = "begin" /\ att'[a].rec = r

\* C13: registering an identity with no certificate file creates a record in
\* state expired (and publishes nothing); a tick covers every registered
\* record and starts an attempt for such a record; and once an attempt on the
\* identity's record has succeeded, GetStatus gives valid and a positive
\* remaining time.
C13_AbsentFileRoundTrip ==
    [][/\ \A id \in CertIds :
             (Registers(id) /\ ~disk[id].exists)
             => /\ recs'[certs'[id]].RenewalStatus = "expired"
                /\ recs'[certs'[id]].ExpiresAt <= now
                /\ statusCh' = statusCh
       /\ TickBegins
          => \A id \in DOMAIN certs : \E i \in DOMAIN loop'.todo : loop'.todo[i] = certs[id]
       /\ \A r \in Recs :
             (/\ Decides(r)
              /\ recs[r].RenewalStatus = "expired"
              /\ recs[r].LastRenewalTry = ZeroTime)
             => AttemptStartsFor(r)
       /\ \A a \in Attempts, id \in DOMAIN certs :
             (Succeeds(a) /\ certs[id] = att[a].rec)
             => /\ recs'[certs'[id]].RenewalStatus = "valid"
                /\ recs'[certs'[id]].ExpiresAt - now' > 0]_vars

\* The record of an identity whose first attempt was started for an expired
\* certificate is valid.
C13_Witness ==
    \E id \in DOMAIN certs :
        /\ Len(starts[id]) = 1
        /\ starts[id][1].kind = "expired"
        /\ recs[certs[id]].LastRenewalTry = starts[id][1].at
        /\ recs[certs[id]].RenewalStatus = "valid"
        /\ Until(recs[certs[id]].ExpiresAt) > 0

\* A renewal attempt records its failure in this step.
Fails(a) == att[a].pc = "failed" /\ att'[a].pc = "free"

\* The record r is no longer watched, or needs no renewal, or no tick is left
\* in the run.
NoRetryDue(r) ==
    \/ ctxDone
    \/ \A id \in DOMAIN certs : certs[id] # r
    \/ Until(recs[r].ExpiresAt) > RenewalWindow
    \/ nextTick > MaxTime

\* C14: when the issuance command of an attempt failed, the record's state
\* becomes renewal_failed and a 'renewal_failed' event with the command's
\* captured output is published; and while the certificate is inside the
\* window or expired a later tick starts a new attempt.
C14_FailureThenRetry ==
    /\ [][\A a \in Attempts :
             Fails(a)
             => /\ recs'[att[a].rec].RenewalStatus = "renewal_failed"
                /\ Len(statusCh) < CertQueueCap
                   => /\ Len(statusCh') = Len(statusCh) + 1
                      /\ statusCh'[Len(statusCh')].Status = "renewal_failed"
                      /\ statusCh'[Len(statusCh')].VMName = recs[att[a].rec].VMName
                      /\ att[a].output # ""
                         => statusCh'[Len(statusCh')].Message[2] = att[a].output]_vars
    /\ \A r \in Recs :
          (recs[r].RenewalStatus = "renewal_failed")
          ~> (NoRetryDue(r) \/ \E a \in Attempts : att[a].pc = "begin" /\ att[a].rec = r)

\* A second attempt has started after the first one failed with some output.
C14_Witness ==
    \E id \in CertIds, i \in DOMAIN statusCh :
        /\ statusCh[i].Status = "renewal_failed"
        /\ statusCh[i].Message[2] \in Outputs \ {""}
        /\ Len(starts[id]) = 2
        /\ \A a \in Attempts : att[a].pc \in {"free", "exec"}
        /\ Cardinality({a \in Attempts : att[a].pc = "exec"}) = 1

\* The state the thresholds give to a remaining time of r seconds.
Classified(r) ==
    IF r <= 0 THEN "expired"
    ELSE IF r <= RenewalWindow THEN "expiring_soon" ELSE "valid"

\* C15: a remaining time r <= 0 is classified expired, 0 < r <= 5 minutes
\* expiring_soon and r > 5 minutes valid; 4m59s is expiring_soon, 5m01s is
\* valid and every negative r is expired.
C15_Thresholds ==
    \A i \in DOMAIN statusCh :
        LET e == statusCh[i] IN
        /\ e.Status = Classified(e.ExpiresIn)
        /\ e.ExpiresIn = RenewalWindow - 1 => e.Status = "expiring_soon"
        /\ e.ExpiresIn = RenewalWindow + 1 => e.Status = "valid"
        /\ e.ExpiresIn < 0 => e.Status = "expired"

\* The same file was classified at 5m01s and, two seconds later, at 4m59s.
C15_Witness ==
    /\ Len(statusCh) = 2
    /\ statusCh[1].ExpiresIn = RenewalWindow + 1 /\ statusCh[1].Status = "valid"
    /\ statusCh[2].ExpiresIn = RenewalWindow - 1 /\ statusCh[2].Status = "expiring_soon"

\* StartTunnel returns the queues of h to its caller in this step.
StartReturns(h) ==
    \E c \in Callers :
        caller[c].pc = "start_send" /\ caller[c].h = h /\ caller'[c].pc = "done"

\* C16: after a successful StartTunnel the first event on the returned status
\* queue is 'Connecting...', ahead of every event derived from the
\* subprocess's output.
C16_ConnectingFirst ==
    /\ [](\A h \in Handles : task[h] = NoTask => tp[h].StatusCh = <<>>)
    /\ [][\A h \in Handles :
             /\ StartReturns(h)
                => /\ task[h] = NoTask
                   /\ tp'[h].StatusCh = <<"Connecting...">>
                   /\ caller'[CHOOSE c \in Callers : caller[c].pc = "start_send" /\ caller[c].h = h].res = "ok"
             /\ task[h] = NoTask /\ task'[h] # NoTask => StartReturns(h)
             /\ Len(tp'[h].StatusCh) > Len(tp[h].StatusCh) /\ ~StartReturns(h)
                => /\ task[h].out = "send" \/ task[h].err = "send_status"
                   /\ tp'[h].StatusCh \in {Append(tp[h].StatusCh, task[h].outPend),
                                           Append(tp[h].StatusCh, task[h].errPendStatus)}]_vars

\* The event of an output line is queued behind 'Connecting...'.
C16_Witness ==
    \E h \in Handles : tp[h].StatusCh = <<"Connecting...", "Active">>

\* The lines of the log of h, oldest first, and the readers that stored them.
LogLines(h) == [i \in DOMAIN tp[h].Logs |-> tp[h].Logs[i].text]
LogStreams(h) == {tp[h].Logs[i].prefix : i \in DOMAIN tp[h].Logs}

\* Neither reader of h has an event left to send.
ReadersIdle(h) == task[h].out = "scan" /\ task[h].err = "scan"

\* The reader of a stream of h takes a line in this step; it will send ev.
ReadsLine(h, line, ev) ==
    /\ nlines'[h] = nlines[h] + 1
    /\ Len(tp'[h].Logs) = Len(tp[h].Logs) + 1
    /\ tp'[h].Logs[Len(tp'[h].Logs)].text = line
    /\ \/ task[h].out = "scan" /\ task'[h].out = "send" /\ task'[h].outPend = ev
       \/ task[h].err = "scan" /\ task'[h].err = "send_status" /\ task'[h].errPendStatus = ev

\* A reader of h reads a line that has an event in this step.
ReadsEvent(h) ==
    \/ task[h].out = "scan" /\ task'[h].out = "send"
    \/ task[h].err = "scan" /\ task'[h].err = "send_status"

\* A reader of h completes its send on the status queue in this step.
SendsEvent(h, ev) ==
    \/ task[h].out = "send" /\ task'[h].out = "scan" /\ task[h].outPend = ev
    \/ task[h].err = "send_status" /\ task'[h].err # "send_status" /\ task[h].errPendStatus = ev

\* C17 as stated: the lines 'Opening tunnel...' then 'Tunnel is ready, connect
\* on port 2022', on whichever streams they arrive, yield Connecting then
\* Active in that order.
C17_ScriptInOrder ==
    \A h \in Handles :
        LogLines(h) = <<OpeningLine, ReadyLine>> /\ ReadersIdle(h)
        => tp[h].StatusCh = <<"Connecting...", "Connecting...", "Active">>

\* C17, amended: a line with 'Tunnel is ready' or 'connect on port' puts
\* 'Active' on the status queue and a line with 'Opening tunnel' and neither
\* ready phrase puts 'Connecting...', on either stream; the lines 'Opening
\* tunnel...' then 'Tunnel is ready, connect on port 2022' arriving on the
\* same stream yield Connecting then Active in that order.
C17_LinesClassified ==
    /\ [][\A h \in Handles :
             /\ ReadsEvent(h)
                => \/ ReadsLine(h, ReadyLine, "Active")
                   \/ ReadsLine(h, PortLine, "Active")
                   \/ ReadsLine(h, BothLine, "Active")
                   \/ ReadsLine(h, OpeningLine, "Connecting...")
             /\ nlines'[h] = nlines[h] + 1 /\ ~ReadsEvent(h)
                => tp'[h].Logs = tp[h].Logs
                   \/ tp'[h].Logs[Len(tp'[h].Logs)].text \in {ErrorLine, EmptyLine}
             /\ \A ev \in {"Active", "Connecting..."} :
                   SendsEvent(h, ev) => tp'[h].StatusCh = Append(tp[h].StatusCh, ev)]_vars
    /\ [](\A h \in Handles :
             /\ LogLines(h) = <<OpeningLine, ReadyLine>>
             /\ ReadersIdle(h)
             /\ Cardinality(LogStreams(h)) = 1
             => tp[h].StatusCh = <<"Connecting...", "Connecting...", "Active">>)

\* Both lines came on stderr and their events are queued.
C17_Witness ==
    \E h \in Handles :
        /\ tp[h].Logs = <<ErrEntry(OpeningLine), ErrEntry(ReadyLine)>>
        /\ ReadersIdle(h)
        /\ tp[h].StatusCh = <<"Connecting...", "Connecting...", "Active">>

\* C18: every publish on the certificate-status queue is non-blocking: with 10
\* events queued the event is dropped; the ticker finishes every tick without
\* waiting for a consumer or for a renewal attempt, so a hung renewal for one
\* identity never delays the check of another.
C18_PublishNeverBlocks ==
    /\ [](/\ Len(statusCh) <= CertQueueCap
          /\ loop.pc = "select" /\ now >= nextTick
             => ENABLED (\E order \in Orders({certs[id] : id \in DOMAIN certs}) : Tick(order))
          /\ loop.pc = "read" => ENABLED TickRead
          /\ loop.pc = "write" => ENABLED TickWrite
          /\ \A a \in Attempts :
                att[a].pc \in {"begin", "notify", "failed", "ok"} => ENABLED RenewStep(a)
          /\ api.pc = "gen_store" /\ nextRec <= MaxRecs => ENABLED GenStore
          /\ \A id \in scope.ids : nextRec <= MaxRecs => ENABLED RegisterCertificate(id))
    /\ [][/\ Len(statusCh) = CertQueueCap => statusCh' = statusCh
          /\ loop.pc = "select" /\ loop'.pc = "read"
             => {loop'.todo[i] : i \in DOMAIN loop'.todo} = {certs[id] : id \in DOMAIN certs}]_vars

\* The queue is full and the renewal of identity 1 has hung since the first
\* tick; the second tick has checked identity 2, started its renewal, and is over.
C18_Witness ==
    /\ Len(statusCh) = CertQueueCap
    /\ Len(starts[1]) > 0
    /\ starts[1][1].at = CheckInterval
    /\ Cardinality({a \in Attempts : att[a].pc = "exec" /\ att[a].rec = certs[1]}) = Len(starts[1])
    /\ 2 \in DOMAIN certs
    /\ Len(starts[2]) > 0
    /\ starts[2][Len(starts[2])].at = 2 * CheckInterval
    /\ loop.pc = "select"
    /\ now = 2 * CheckInterval

\* GenerateCertificate returns an error in this step.
GenFails ==
    /\ api.pc \in {"idle", "gen_exec"}
    /\ api'.pc = "done"
    /\ api'.op = "GenerateCertificate"
    /\ api'.err # "nil"

\* C19: when GenerateCertificate fails (directory creation, key generation or
\* the issuance command) it returns the error, leaves the certificate map and
\* every record unchanged, and publishes no event.
C19_FailureChangesNothing ==
    [][/\ GenFails
          => /\ api'.err \in GenFailures \cup {"failed to generate certificate"}
             /\ certs' = certs /\ recs' = recs /\ nextRec' = nextRec
             /\ statusCh' = statusCh
       /\ api' # api /\ api'.op = "GenerateCertificate" /\ api'.pc # "done"
          => certs' = certs /\ recs' = recs /\ statusCh' = statusCh]_vars

\* The issuance command failed for an identity that is registered.
C19_Witness ==
    /\ api.pc = "done"
    /\ api.op = "GenerateCertificate"
    /\ api.err = "failed to generate certificate"
    /\ api.id \in DOMAIN certs
    /\ recs[certs[api.id]].RenewalStatus = "valid"
    /\ Len(statusCh) = 1

\* GetStatus(id) returns in this step.
GetStatusReturns(id) ==
    api.pc = "idle" /\ api'.pc = "done" /\ api'.op = "GetStatus" /\ api'.id = id

\* C20: GetStatus(identity) returns the record's current state and remaining
\* time for a registered identity and fails with 'certificate not registered'
\* for an unknown one; it changes no record and publishes no event.
C20_GetStatusReadsOnly ==
    [][\A id \in CertIds :
          GetStatusReturns(id)
          => /\ certs' = certs /\ recs' = recs /\ nextRec' = nextRec
             /\ statusCh' = statusCh
             /\ IF id \in DOMAIN certs
                THEN /\ api'.err = "nil"
                     /\ api'.status = recs[certs[id]].RenewalStatus
                     /\ api'.remaining = recs[certs[id]].ExpiresAt - now
                ELSE /\ api'.err = "certificate not registered"
                     /\ api'.status = ""
                     /\ api'.remaining = 0]_vars

\* Some time after its registration the state and the remaining time of an
\* identity were returned.
C20_Witness ==
    /\ api.pc = "done"
    /\ api.op = "GetStatus"
    /\ api.err = "nil"
    /\ now > 0
    /\ api.status = "expiring_soon"
    /\ api.remaining = 4 * CheckInterval - now

\* StartTunnel returns a pipe or spawn error to caller c in this step.
SpawnFails(c) ==
    /\ caller[c].pc = "start_spawn"
    /\ caller'[c].pc = "done"
    /\ caller'[c].res = "failed to start tunnel"

\* C22: when pipe creation or the spawn fails StartTunnel returns the error,
\* registers no handle for the id, starts no task and returns no queues, so a
\* later StartTunnel for the id is not rejected as already running.
C22_SpawnFailureRegistersNothing ==
    [][/\ \A c \in Callers :
             SpawnFails(c)
             => /\ caller'[c].ret = NoHandle
                /\ tunnels' = tunnels /\ tp' = tp /\ proc' = proc
                /\ task' = task /\ nextH' = nextH
       /\ \A id \in TunnelIds :
             id \notin DOMAIN tunnels /\ id \in DOMAIN tunnels'
             => \E c \in Callers :
                   /\ caller[c].pc = "start_store" /\ caller[c].id = id
                   /\ tunnels'[id] = caller[c].h
                   /\ proc[caller[c].h].state # "none"
       /\ \A c \in Callers, id \in TunnelIds :
             (/\ caller[c].pc = "idle"
              /\ caller'[c].op = "StartTunnel" /\ caller'[c].id = id
              /\ caller'[c].res = "tunnel already running")
             => id \in DOMAIN tunnels]_vars

\* One call failed to spawn and nothing is registered or started.
C22_Witness ==
    \E c \in Callers :
        /\ caller[c].pc = "done"
        /\ caller[c].res = "failed to start tunnel"
        /\ caller[c].id \notin DOMAIN tunnels
        /\ nextH = 1
        /\ \A h \in Handles : task[h] = NoTask

\* C25: no event is sent on a tunnel queue that has been closed: the
\* process-wait task closes the queues only after both readers have published
\* their last event.
C25_NoSendOnClosed ==
    /\ ~panicked
    /\ \A h \in Handles :
          /\ tp[h].statusClosed => task[h].out # "send" /\ task[h].err # "send_status"
          /\ tp[h].errorClosed => task[h].err # "send_error"

\* The process-wait task of h runs delete(tm.tunnels, index) in this step.
WaitDeletes(h) == task[h].wait = "delete" /\ task'[h].wait = "close_status"

\* C26: the process-wait task of a tunnel removes only its own handle: a
\* handle stored by a later StartTunnel for the same id stays in the active set.
C26_WaitRemovesOwnHandle ==
    [][\A h \in Handles :
          WaitDeletes(h)
          => \A id \in DOMAIN tunnels : tunnels[id] # h => id \in DOMAIN tunnels']_vars

\* The renewal attempts of identity id that have started and not yet finished.
InFlight(id) == {a \in Attempts : att[a].pc # "free" /\ recs[att[a].rec].VMName = id}

\* C27: for each identity at most one renewal attempt is in flight at any
\* time, also when an attempt lasts longer than the check interval.
C27_OneAttemptInFlight ==
    \A id \in CertIds : Cardinality(InFlight(id)) <= 1

\* The ticker writes the state of record r, or starts its renewal, in this step.
TickActsOn(r) ==
    /\ loop.pc = "write"
    /\ Head(loop.todo) = r
    /\ \/ recs'[r].RenewalStatus # recs[r].RenewalStatus
       \/ \E a \in Attempts : att[a].pc = "free" /\ att'[a].pc = "begin"

\* C28: a tick never writes a state, nor starts a renewal, computed from an
\* expiry that a completed renewal has already replaced: a record just set to
\* valid is not set back to expired or expiring_soon by that tick.
C28_TickSeesCurrentExpiry ==
    [][\A r \in Recs :
          TickActsOn(r)
          => /\ loop.expiresAt = recs[r].ExpiresAt
             /\ recs[r].RenewalStatus = "valid" /\ Until(recs[r].ExpiresAt) > RenewalWindow
                => recs'[r].RenewalStatus = "valid"]_vars

\* An attempt on record r has marked it renewing and has not yet recorded its
\* result.
Renewing(r) ==
    \E a \in Attempts : att[a].rec = r /\ att[a].pc \in {"notify", "exec", "ok", "failed"}

\* C29: while a renewal attempt is in flight the record's state stays
\* renewing: a tick during the attempt does not replace it.
C29_RenewingStays ==
    [][\A r \in Recs :
          Renewing(r) /\ recs[r].RenewalStatus = "renewing" /\ loop.pc = "write"
          /\ loop'.pc # "write"
          => recs'[r].RenewalStatus = "renewing"]_vars

\* The events of identity id with a status in S among the first n of the queue.
EventsUpTo(n, id, S) ==
    {i \in 1..n : statusCh[i].VMName = id /\ statusCh[i].Status \in S}

\* C30: each renewal attempt marks the record renewing and publishes the
\* 'renewing' event before the issuance command is invoked, and its 'renewed'
\* or 'renewal_failed' event comes after its 'renewing' event on the queue.
C30_RenewingFirst ==
    /\ [][\A a \in Attempts :
             /\ att[a].pc = "begin" /\ att'[a].pc # "begin"
                => /\ att'[a].pc = "notify"
                   /\ recs'[att[a].rec].RenewalStatus = "renewing"
                   /\ statusCh' = statusCh
             /\ att[a].pc = "notify" /\ att'[a].pc # "notify"
                => /\ att'[a].pc = "exec"
                   /\ Len(statusCh) < CertQueueCap
                      => /\ Len(statusCh') = Len(statusCh) + 1
                         /\ statusCh'[Len(statusCh')].Status = "renewing"
                         /\ statusCh'[Len(statusCh')].VMName = recs[att[a].rec].VMName
             /\ att'[a].pc = "exec" => att[a].pc \in {"notify", "exec"}
             /\ att'[a].pc \in {"ok", "failed"} => att[a].pc \in {"exec", "ok", "failed"}]_vars
    /\ [](\A id \in CertIds, n \in 1..Len(statusCh) :
             Cardinality(EventsUpTo(n, id, {"renewed", "renewal_failed"}))
                <= Cardinality(EventsUpTo(n, id, {"renewing"})))

\* The 'renewing' event and the result of one attempt are on the queue.
C30_Witness ==
    /\ Len(statusCh) < CertQueueCap
    /\ \E i, j \in DOMAIN statusCh :
          /\ i < j
          /\ statusCh[i].Status = "renewing"
          /\ statusCh[j].Status = "renewed"
          /\ \A k \in DOMAIN statusCh :
                statusCh[k].Status \in {"renewing", "renewed", "renewal_failed"} => k \in {i, j}

\* StopAll returns in this step.
StopAllReturns == ops.pc \in {"idle", "all_next"} /\ ops'.pc = "done" /\ ops'.op = "StopAll"

\* C21: after StopAll returns, no StartTunnel running with it, the active set
\* is empty and every handle that was active has been stopped; a stop that
\* fails does not keep the remaining tunnels from being stopped.
C21_StopAllEmpties ==
    /\ [][StopAllReturns
          => /\ DOMAIN tunnels' = {}
             /\ \A h \in Handles : proc'[h].state = "exited"]_vars
    /\ [][ops.pc = "all_check" /\ ops'.pc # "all_check"
          => /\ ops'.pc \in {"all_kill", "all_next"}
             /\ ops'.pc = "all_next" <=> ops.id \notin DOMAIN tunnels]_vars

\* StopAll has returned; one stop failed and another tunnel was killed by it.
C21_Witness ==
    /\ ops.pc = "done"
    /\ ops.op = "StopAll"
    /\ ops.failed # {}
    /\ \E h \in Handles : tp[h].cancelled /\ proc[h].err = KilledErr

\* C23: GetLogs(id) returns a copy of the log buffer as it stood at one
\* instant, which later appends never change; for an id not in the active set
\* it returns the single line 'Tunnel not running'.
C23_LogsSnapshot ==
    [][/\ ops.pc = "logs_copy" /\ ops'.pc = "done" => ReturnedLogs' = tp[ops.h].Logs
       /\ ops.pc = "done" /\ ops.op = "GetLogs" /\ ops' = ops => ReturnedLogs' = ReturnedLogs
       /\ \A id \in Handles :
             (/\ ops.pc = "idle" /\ ops'.op = "GetLogs" /\ ops'.id = id
              /\ id \notin DOMAIN tunnels)
             => ops'.pc = "done" /\ ReturnedLogs' = <<NotRunningEntry>>
       /\ ops' # ops /\ ops'.op = "GetLogs" => tp' = tp /\ tunnels' = tunnels]_vars

\* The log has grown since the caller got its copy.
C23_Witness ==
    /\ ops.pc = "done"
    /\ ops.op = "GetLogs"
    /\ ops.id \in DOMAIN tunnels
    /\ ReturnedLogs # <<>>
    /\ Len(tp[tunnels[ops.id]].Logs) > Len(ReturnedLogs)

\* C24: every read or write of the active-tunnel map happens while the
\* manager's map lock is held.
C24_MapAccessLocked ==
    ops.op # "none" => ops.lock \in {"Lock", "RLock"}

\* The process-wait task of h closes a queue of h in this step.
Closes(h) ==
    \/ ~tp[h].statusClosed /\ tp'[h].statusClosed
    \/ ~tp[h].errorClosed /\ tp'[h].errorClosed

\* C31 as stated: at the moment a queue of a tunnel is closed, the tunnel's id
\* is absent from the active set.
C31_IdAbsentAtClosure ==
    [][\A h \in Handles : Closes(h) => tp[h].index \notin DOMAIN tunnels]_vars

\* C31, amended: at the moment a queue of a tunnel is closed, the tunnel's
\* handle is no longer in the active set: its id is absent, or it belongs to
\* another tunnel that was started with the same id.
C31_RemovedBeforeClosure ==
    [][\A h \in Handles :
          Closes(h) => \A i \in DOMAIN tunnels : tunnels[i] # h]_vars

\* The subprocess of a tunnel has exited by itself, its wait task has closed
\* both queues, and the id is absent.
C31_Witness ==
    \E h \in Handles :
        /\ task[h].wait = "done" /\ proc[h].err # KilledErr
        /\ tp[h].index \in TunnelIds
        /\ tp[h].statusClosed /\ tp[h].errorClosed
        /\ tp[h].index \notin DOMAIN tunnels

\* q is an interleaving of a and b that keeps the order of each.
RECURSIVE IsMerge(_, _, _)
IsMerge(q, a, b) ==
    IF q = <<>>
    THEN a = <<>> /\ b = <<>>
    ELSE \/ a # <<>> /\ Head(a) = Head(q) /\ IsMerge(Tail(q), Tail(a), b)
         \/ b # <<>> /\ Head(b) = Head(q) /\ IsMerge(Tail(q), a, Tail(b))

\* The status events of the lines of one stream (told by the prefix of its log
\* entries), in the order the lines were read.
RECURSIVE StatusOf(_, _)
StatusOf(logs, prefix) ==
    IF logs = <<>>
    THEN <<>>
    ELSE LET e == Head(logs)
             rest == StatusOf(Tail(logs), prefix) IN
         IF e.prefix = prefix /\ ClassifyStatus(e.text) # "none"
         THEN <<ClassifyStatus(e.text)>> \o rest
         ELSE rest

\* The error events of the lines of stderr, in the order the lines were read.
RECURSIVE ErrorsOf(_)
ErrorsOf(logs) ==
    IF logs = <<>>
    THEN <<>>
    ELSE LET e == Head(logs)
             rest == ErrorsOf(Tail(logs)) IN
         IF e.prefix = "" /\ IsErrorLine(e.text) THEN <<e.text>> \o rest ELSE rest

\* All of seq, or all but its newest element while that one waits to be sent.
SentOf(seq, pending) == IF pending THEN SubSeq(seq, 1, Len(seq) - 1) ELSE seq

\* C32: with nobody receiving, the status queue of a started tunnel holds the
\* initial event followed by an interleaving of the events of the stdout lines
\* and the events of the stderr lines, each stream's events in the order its
\* lines were read, and the error queue holds the error events of the stderr
\* lines in the order the lines were read.
C32_StreamOrderKept ==
    \A h \in Handles :
        task[h].out # "none"
        => /\ Len(tp[h].StatusCh) > 0
           /\ Head(tp[h].StatusCh) = "Connecting..."
           /\ IsMerge(Tail(tp[h].StatusCh),
                      SentOf(StatusOf(tp[h].Logs, "[OUT] "), task[h].out = "send"),
                      SentOf(StatusOf(tp[h].Logs, ""), task[h].err = "send_status"))
           /\ tp[h].ErrorCh =
                  SentOf(ErrorsOf(tp[h].Logs),
                         task[h].err = "send_error"
                             \/ (task[h].err = "send_status" /\ task[h].errPendError))

\* Two lines with different events came on stdout and both events are queued.
C32_Witness ==
    \E h \in Handles :
        /\ tp[h].Logs = <<OutEntry(ReadyLine), OutEntry(OpeningLine)>>
        /\ ReadersIdle(h)
        /\ tp[h].StatusCh = <<"Connecting...", "Active", "Connecting...">>

\* C33: with nobody receiving, the events of a started tunnel's lines (the
\* status queue without its initial event, the error queue, and the events the
\* readers have still to send) are at most as many as the lines read, so no
\* line has produced two events.
C33_OneEventPerLine ==
    \A h \in Handles :
        task[h].out # "none"
        => Len(tp[h].StatusCh) - 1 + Len(tp[h].ErrorCh)
               + (IF task[h].outPend # "none" THEN 1 ELSE 0)
               + (IF task[h].errPendStatus # "none" THEN 1 ELSE 0)
               + (IF task[h].errPendError THEN 1 ELSE 0)
           <= nlines[h]

\* C34: every line a reader takes, the empty line and a line with no phrase
\* included, adds an entry to the log; a line with no phrase leaves the queues,
\* the subprocess and the active set as they are.
C34_EveryLineLogged ==
    [][\A h \in Handles :
          nlines'[h] = nlines[h] + 1
          => /\ Len(tp'[h].Logs) = Len(tp[h].Logs) + 1
             /\ ~ReadsEvent(h) /\ task'[h].err # "send_error"
                => /\ tp'[h].StatusCh = tp[h].StatusCh /\ tp'[h].ErrorCh = tp[h].ErrorCh
                   /\ ReadersIdle(h)'
                   /\ proc' = proc /\ tunnels' = tunnels /\ panicked' = panicked]_vars

\* The error words in the letter cases the subprocess writes.
ErrorWords == {"error", "Error", "ERROR", "failed", "Failed", "FAILED"}
HasErrorWord(line) == \E i \in DOMAIN line : line[i] \in ErrorWords

\* The stderr lines of a log that have an error word, oldest first.
RECURSIVE ErrWordLines(_)
ErrWordLines(logs) ==
    IF logs = <<>>
    THEN <<>>
    ELSE LET e == Head(logs)
             rest == ErrWordLines(Tail(logs)) IN
         IF e.prefix = "" /\ HasErrorWord(e.text) THEN <<e.text>> \o rest ELSE rest

\* C35: with nobody receiving, the error queue of a started tunnel, followed
\* by the error the stderr reader has still to send, is the sequence of the
\* lines with 'error' or 'failed' in any letter case that came on stderr; the
\* lines that came on stdout add nothing to it.
C35_ErrorEventsFromStderrOnly ==
    \A h \in Handles :
        task[h].out # "none"
        => tp[h].ErrorCh \o (IF task[h].errPendError THEN <<task[h].errLine>> ELSE <<>>)
               = ErrWordLines(tp[h].Logs)

\* The same line with a capitalised error word came on stdout and on stderr,
\* and the error queue holds one event, for the one on stderr.
C35_Witness ==
    \E h \in Handles :
        /\ tp[h].Logs = <<OutEntry(MixedErrorLine), ErrEntry(MixedErrorLine)>>
        /\ ReadersIdle(h)
        /\ tp[h].ErrorCh = <<MixedErrorLine>>

\* The handler of a stop (Enter on an Active tunnel, or a confirmed deletion)
\* ends in this step.
UiStopEnds == ui.pc \in {"stop", "delete_stop"} /\ ui'.pc = "idle"

\* C36: when the stop or the deletion of a listed tunnel ends, no subprocess
\* that was started for that tunnel is running, and the StopTunnel call of the
\* handler found the handle that was created for that tunnel.
C36_StopAddressesOwnHandle ==
    [][\A h \in Handles :
          UiStopEnds /\ ui.owner[h] = ui.tunnels[ui.pos].ID
          => /\ proc[h].state # "running"
             /\ caller[1].h # NoHandle => ui.owner[caller[1].h] = ui.tunnels[ui.pos].ID]_vars

\* The tunnel with this ID is listed as Active or Connecting....
ShownUp(id) ==
    \E i \in DOMAIN ui.tunnels :
        ui.tunnels[i].ID = id /\ ui.tunnels[i].Status \in {"Active", "Connecting..."}

\* The subprocess h of the listed tunnel id has exited by itself while the
\* channels of h are the ones stored for the tunnel.
DiedAlone(id, h) ==
    /\ ui.owner[h] = id
    /\ id \in DOMAIN ui.channels /\ ui.channels[id] = h
    /\ proc[h].state = "exited" /\ proc[h].err \in {NilErr, ExitErr}

\* C37: once the subprocess of a listed tunnel has exited by itself, the
\* tunnel does not stay Active or Connecting... for ever, and after an exit
\* with an error it is shown as Error (or the user has stopped or deleted it).
C37_ExitShown ==
    \A id \in 1..MaxTunnels, h \in Handles :
        /\ DiedAlone(id, h) /\ ShownUp(id) ~> ~ShownUp(id)
        /\ DiedAlone(id, h) /\ proc[h].err = ExitErr
               ~> \/ \E i \in DOMAIN ui.tunnels :
                        ui.tunnels[i].ID = id /\ ui.tunnels[i].Status = "Error"
                  \/ id \notin DOMAIN ui.channels

\* The status the list u shows for the tunnel with this ID, "none" when the
\* tunnel is not listed.
UiStatus(u, id) ==
    LET P == {i \in DOMAIN u.tunnels : u.tunnels[i].ID = id} IN
    IF P = {} THEN "none" ELSE u.tunnels[CHOOSE i \in P : TRUE].Status

\* C38: a tunnel that is shown as Inactive stays Inactive until the user
\* starts it (Starting) or deletes it; an event of the stopped subprocess that
\* is delivered late does not change what is shown.
C38_StoppedStaysInactive ==
    [][\A id \in 1..MaxTunnels :
          UiStatus(ui, id) = "Inactive"
          => UiStatus(ui', id) \in {"Inactive", "Starting", "none"}]_vars

\* A line with one of the two ready signals.
HasReadySignal(line) ==
    Contains(line, <<"Tunnel", "is", "ready">>) \/ Contains(line, <<"connect", "on", "port">>)

\* The newest entry of the log of h.
NewestLine(t, h) == t[h].Logs[Len(t[h].Logs)].text

====
